---- MODULE Spec2Model ----
(***************************************************************************)
(* Model of the o2-exchange Rust SDK (sdks/rust): the market scaler and    *)
(* validator (models.rs), the Action -> Call conversion (encoding.rs) and  *)
(* the action protocol orchestrator O2Client (client.rs) with its session  *)
(* nonce, expiry check and market-metadata cache.                          *)
(*                                                                         *)
(* Integer widths are scaled down so that TLC can enumerate them: a u64 is *)
(* WordBits bits wide, a u128 is 2*WordBits bits wide and the 96-bit       *)
(* mantissa of rust_decimal::Decimal is 3*WordBits/2 bits wide.  The radix *)
(* of the decimal scaling stays 10, as in the code.                        *)
(***************************************************************************)
EXTENDS Integers, Sequences, FiniteSets, TLC

VARIABLES now, accountNonce, markets_cache, markets_cache_at, metadata_policy,
          session, last, calc

vars == <<now, accountNonce, markets_cache, markets_cache_at, metadata_policy,
          session, last, calc>>

(***************************************************************************)
(* Bounds of the model.                                                    *)
(***************************************************************************)
\* width, in bits, of the model's u64
WordBits == 8
\* largest asset `decimals` a market of the model carries
MaxDecimals == 5
\* prices and quantities 0..MaxSample are enumerated, beside the extremes
MaxSample == 12

RECURSIVE Pow(_, _)
Pow(b, n) == IF n = 0 THEN 1 ELSE b * Pow(b, n - 1)

U64_MAX == Pow(2, WordBits) - 1
U128_MAX == Pow(2, 2 * WordBits) - 1
DECIMAL_MAX == Pow(2, (3 * WordBits) \div 2) - 1

(***************************************************************************)
(* Result<T, O2Error>: ok, the value, and the error variant.  A panic of   *)
(* the thread is the error variant "panic".                                *)
(***************************************************************************)
Ok(v) == [ok |-> TRUE, v |-> v, err |-> ""]
Err(e) == [ok |-> FALSE, v |-> 0, err |-> e]

\* `let v = value;` : the rest of the function over the value
With(value, F(_)) == F(value)

(***************************************************************************)
(* models.rs: Market arithmetic.                                           *)
(***************************************************************************)
\* 10u64.checked_pow(exp)
checked_pow_u64(exp) ==
    IF Pow(10, exp) > U64_MAX THEN Err("Other") ELSE Ok(Pow(10, exp))

\* 10u128.checked_pow(exp)
checked_pow_u128(exp) ==
    IF Pow(10, exp) > U128_MAX THEN Err("Other") ELSE Ok(Pow(10, exp))

checked_truncate_factor(decimals, max_precision) ==
    IF max_precision > decimals
    THEN Err("Other")
    ELSE checked_pow_u64(decimals - max_precision)

\* `x as u64`: keeps the low WordBits bits
as_u64(x) == x % (U64_MAX + 1)

\* a scale_asset that rounds to the nearest multiple of the truncation
\* factor instead of truncating
scale_asset_rounded(asset, human_value) ==
    LET factor_u64 == checked_pow_u64(asset.decimals) IN
    IF ~factor_u64.ok THEN factor_u64
    ELSE
    LET scaled == (human_value.m * factor_u64.v) \div Pow(10, human_value.e) IN
    IF scaled > DECIMAL_MAX THEN Err("panic")
    ELSE IF scaled > U64_MAX THEN Err("Other")
    ELSE
    LET truncate_factor ==
            checked_truncate_factor(asset.decimals, asset.max_precision) IN
    IF ~truncate_factor.ok THEN truncate_factor
    ELSE Ok(((scaled + (truncate_factor.v \div 2)) \div truncate_factor.v)
            * truncate_factor.v)

\* The shared body of scale_price and scale_quantity over one asset.
\* human_value is an UnsignedDecimal [m, e] standing for m / 10^e.
\* Decimal's `*` panics when the product does not fit the mantissa.
scale_asset(asset, human_value) ==
    LET factor_u64 == checked_pow_u64(asset.decimals) IN
    IF ~factor_u64.ok THEN factor_u64
    ELSE
    LET scaled == (human_value.m * factor_u64.v) \div Pow(10, human_value.e) IN
    IF scaled > DECIMAL_MAX THEN Err("panic")
    ELSE IF scaled > U64_MAX THEN Err("Other")
    ELSE
    LET truncate_factor ==
            checked_truncate_factor(asset.decimals, asset.max_precision) IN
    IF ~truncate_factor.ok THEN truncate_factor
    ELSE Ok((scaled \div truncate_factor.v) * truncate_factor.v)

scale_price(market, human_value) == scale_asset(market.quote, human_value)

scale_quantity(market, human_value) == scale_asset(market.base, human_value)

adjust_quantity(market, price, quantity) ==
    IF price = 0 THEN Err("InvalidOrderParams")
    ELSE
    LET base_factor == checked_pow_u128(market.base.decimals) IN
    IF ~base_factor.ok THEN base_factor
    ELSE
    LET product == price * quantity
        remainder == product % base_factor.v
        adjusted == (product - remainder) \div price
    IN  IF remainder = 0 THEN Ok(quantity)
        ELSE IF adjusted > U64_MAX THEN Err("InvalidOrderParams")
        ELSE Ok(as_u64(adjusted))

\* a validate_order that takes its divisor from the quote asset
validate_order_quote_decimals(market, price, quantity) ==
    LET base_factor == checked_pow_u128(market.quote.decimals) IN
    IF ~base_factor.ok THEN base_factor
    ELSE
    LET quote_value == (price * quantity) \div base_factor.v IN
    IF quote_value < market.min_order THEN Err("InvalidOrderParams")
    ELSE IF (price * quantity) % base_factor.v # 0
         THEN Err("InvalidOrderParams")
    ELSE Ok(0)

validate_order(market, price, quantity) ==
    LET base_factor == checked_pow_u128(market.base.decimals) IN
    IF ~base_factor.ok THEN base_factor
    ELSE
    LET quote_value == (price * quantity) \div base_factor.v IN
    IF quote_value < market.min_order THEN Err("InvalidOrderParams")
    ELSE IF (price * quantity) % base_factor.v # 0
         THEN Err("InvalidOrderParams")
    ELSE Ok(0)

(***************************************************************************)
(* crypto.rs: parse_hex_32.  An id is a string; the ids of ValidHex32 are  *)
(* the well-formed 32-byte hex strings.                                    *)
(***************************************************************************)
ValidHex32 == {"0xc1", "0xc2", "0xreg", "0xbase", "0xquote", "0xacct",
               "0xo1", "0xo2", "0xref", "0xowner", "0xsess"}

parse_hex_32(s) == IF s \in ValidHex32 THEN Ok(0) ELSE Err("CryptoError")

(***************************************************************************)
(* encoding.rs: Action -> CallArg.                                         *)
(***************************************************************************)
GAS_MAX == U64_MAX

ZERO_ASSET == "0x00"

NoCall == [contract_id |-> "", function_selector |-> "", amount |-> 0,
           asset_id |-> "", gas |-> 0, call_data |-> <<>>]

\* encode_order_args, as the sequence of its u64 fields
encode_order_args(price, quantity, order_type) ==
    <<price, quantity>> \o order_type

create_order_to_call(contract_id, side, price, quantity, order_type, base_decimals, base_asset, quote_asset) ==
    LET amt == (price * quantity) \div Pow(10, base_decimals) IN
    [contract_id |-> contract_id,
     function_selector |-> "create_order",
     amount |-> IF side = "Buy" THEN as_u64(amt) ELSE quantity,
     asset_id |-> IF side = "Buy" THEN quote_asset ELSE base_asset,
     gas |-> GAS_MAX,
     call_data |-> encode_order_args(price, quantity, order_type)]

cancel_order_to_call(contract_id, order_id) ==
    [contract_id |-> contract_id,
     function_selector |-> "cancel_order",
     amount |-> 0,
     asset_id |-> ZERO_ASSET,
     gas |-> GAS_MAX,
     call_data |-> <<order_id>>]

settle_balance_to_call(contract_id, to_discriminant, to_address) ==
    [contract_id |-> contract_id,
     function_selector |-> "settle_balance",
     amount |-> 0,
     asset_id |-> ZERO_ASSET,
     gas |-> GAS_MAX,
     call_data |-> <<to_discriminant, to_address>>]

register_referer_to_call(accounts_registry_id, referer_discriminant, referer_address) ==
    [contract_id |-> accounts_registry_id,
     function_selector |-> "register_referer",
     amount |-> 0,
     asset_id |-> ZERO_ASSET,
     gas |-> GAS_MAX,
     call_data |-> <<referer_discriminant, referer_address>>]

\* Result<OrderTypeEncoding, O2Error>
EncOk(v) == [ok |-> TRUE, v |-> v, err |-> ""]
EncErr(e) == [ok |-> FALSE, v |-> <<>>, err |-> e]

\* `let v = r?;` inside to_encoding
TryEnc(r, F(_)) == IF r.ok THEN F(r.v) ELSE EncErr(r.err)

\* models.rs OrderType::to_encoding: the variant tag and payload, with the
\* prices of Limit and BoundedMarket scaled by scale_price
to_encoding(order_type, market) ==
    CASE order_type.kind = "Spot" -> EncOk(<<1>>)
      [] order_type.kind = "Market" -> EncOk(<<4>>)
      [] order_type.kind = "FillOrKill" -> EncOk(<<2>>)
      [] order_type.kind = "PostOnly" -> EncOk(<<3>>)
      [] order_type.kind = "Limit" ->
            TryEnc(scale_price(market, order_type.price),
                   LAMBDA scaled_price :
                       EncOk(<<0, scaled_price, order_type.timestamp>>))
      [] order_type.kind = "BoundedMarket" ->
            TryEnc(scale_price(market, order_type.max_price),
                   LAMBDA scaled_max :
            TryEnc(scale_price(market, order_type.min_price),
                   LAMBDA scaled_min :
                       EncOk(<<5, scaled_max, scaled_min>>)))

\* Result<(CallArg, json), O2Error> of action_to_call
CallOk(call, json) == [ok |-> TRUE, call |-> call, json |-> json, err |-> ""]
CallErr(e) == [ok |-> FALSE, call |-> NoCall, json |-> "", err |-> e]

\* `let v = r?;` inside action_to_call
TryCall(r, F(_)) == IF r.ok THEN F(r.v) ELSE CallErr(r.err)

action_to_call(action, market, trade_account_id, accounts_registry_id) ==
    IF ~parse_hex_32(market.contract_id).ok THEN CallErr("CryptoError")
    ELSE
    CASE action.type = "CreateOrder" ->
            IF ~parse_hex_32(market.base.asset).ok THEN CallErr("CryptoError")
            ELSE IF ~parse_hex_32(market.quote.asset).ok
            THEN CallErr("CryptoError")
            ELSE
            TryCall(scale_price(market, action.price),
                    LAMBDA scaled_price :
            TryCall(scale_quantity(market, action.quantity),
                    LAMBDA scaled_quantity0 :
            TryCall(adjust_quantity(market, scaled_price, scaled_quantity0),
                    LAMBDA scaled_quantity :
            TryCall(validate_order(market, scaled_price, scaled_quantity),
                    LAMBDA valid :
            TryCall(to_encoding(action.order_type, market),
                    LAMBDA ot :
                CallOk(create_order_to_call(market.contract_id, action.side,
                                            scaled_price, scaled_quantity,
                                            ot, market.base.decimals,
                                            market.base.asset,
                                            market.quote.asset),
                       "CreateOrder"))))))
      [] action.type = "CancelOrder" ->
            IF ~parse_hex_32(action.order_id).ok THEN CallErr("CryptoError")
            ELSE CallOk(cancel_order_to_call(market.contract_id,
                                             action.order_id),
                        "CancelOrder")
      [] action.type = "SettleBalance" ->
            IF ~parse_hex_32(trade_account_id).ok THEN CallErr("CryptoError")
            ELSE CallOk(settle_balance_to_call(market.contract_id, 1,
                                               trade_account_id),
                        "SettleBalance")
      [] action.type = "RegisterReferer" ->
            IF accounts_registry_id = "" THEN CallErr("Other")
            ELSE IF ~parse_hex_32(action.to.addr).ok
            THEN CallErr("CryptoError")
            ELSE CallOk(register_referer_to_call(accounts_registry_id,
                                                 action.to.disc,
                                                 action.to.addr),
                        "RegisterReferer")

(***************************************************************************)
(* The exchange API as the client sees it.  GET /v1/markets answers with   *)
(* one of the market listings below, or fails.                             *)
(***************************************************************************)
Asset(symbol, asset, decimals, max_precision) ==
    [symbol |-> symbol, asset |-> asset, decimals |-> decimals,
     max_precision |-> max_precision]

MakeMarket(contract_id, market_id, min_order, base, quote) ==
    [contract_id |-> contract_id, market_id |-> market_id,
     min_order |-> min_order, base |-> base, quote |-> quote]

NoMarket == MakeMarket("", "", 0, Asset("", "", 0, 0), Asset("", "", 0, 0))

\* models.rs Market::symbol_pair
symbol_pair(market) == market.base.symbol \o "/" \o market.quote.symbol

MarketsResponses ==
    <<[accounts_registry_id |-> "0xreg",
       markets |-> <<MakeMarket("0xc1", "0xm1", 2,
                                Asset("A", "0xbase", 1, 1),
                                Asset("B", "0xquote", 1, 1)),
                     MakeMarket("0xc2", "0xm2", 0,
                                Asset("C", "0xbase", 0, 0),
                                Asset("D", "0xquote", 1, 1))>>]>>

SnapshotIds == 1..Len(MarketsResponses)

\* Option<MarketsResponse> and Option<Instant> of the cache
NoCache == 0
NoInstant == -1

(***************************************************************************)
(* client.rs: O2Client.  A handler runs to completion on the caller's      *)
(* task; what it awaits from the network is chosen by the environment.  A  *)
(* handler is therefore a set of runs: each operator below maps the        *)
(* context of a run to the set of contexts the run can continue with.      *)
(*   st      "run" while the handler executes, "ret" once it has returned  *)
(*   ok/err  the Result it returned                                        *)
(*   cache, at    markets_cache, markets_cache_at                          *)
(*   nonce   session.nonce;  writes: the values assigned to it, in order   *)
(*   acct    the account's canonical nonce on the server                   *)
(*   net     the network calls made, in order                              *)
(*   signed  the signatures produced, in order, each with the account's    *)
(*           canonical nonce at the moment it was made                     *)
(*   calls, jsons   all_calls and all_market_actions                       *)
(*   market  the Market last resolved by get_market                        *)
(*   submit  the outcome of api.submit_actions, resync: of refresh_nonce   *)
(*   fetched the nonce the last account lookup returned                    *)
(*   req_nonce   the nonce field of the last signed request                *)
(*   requests    the SessionActionsRequests built, in order                *)
(*   results the number of responses collected by cancel_all_orders        *)
(*   open    the open orders the account had when cancel_all_orders asked  *)
(*   lookups the cache each ensure_markets found, and whether it refreshed *)
(*   local   the handler returned an error of the local order validation   *)
(*   expiry  the expiry of the Session a create_session returned           *)
(*   orders  whether the response handed to the caller carries orders      *)
(*   swallowed   the steps whose error was dropped instead of returned     *)
(***************************************************************************)
NewCtx(nonce) ==
    [st |-> "run", ok |-> TRUE, err |-> "",
     cache |-> markets_cache, at |-> markets_cache_at,
     nonce |-> nonce, writes |-> <<>>, acct |-> accountNonce,
     net |-> <<>>, signed |-> <<>>, calls |-> <<>>, jsons |-> <<>>,
     actions_json |-> <<>>, market |-> NoMarket, submit |-> "",
     resync |-> "", fetched |-> -1, req_nonce |-> -1, results |-> 0,
     local |-> FALSE, expiry |-> 0, orders |-> "none", swallowed |-> <<>>,
     open |-> <<>>, lookups |-> <<>>, requests |-> <<>>]

Return(c, ok, err) == [c EXCEPT !.st = "ret", !.ok = ok, !.err = err]

Fail(c, err) == Return(c, FALSE, err)

FailLocal(c, err) == [Fail(c, err) EXCEPT !.local = TRUE]

Net(c, call) == [c EXCEPT !.net = Append(@, call)]

\* the `?` operator and `.await` sequencing: continue the runs still running
Bind(S, F(_)) == UNION { IF c.st = "run" THEN F(c) ELSE {c} : c \in S }

\* a should_refresh_markets that keeps a snapshot until it is older than ttl
should_refresh_markets_late(cache, at) ==
    IF cache = NoCache THEN TRUE
    ELSE IF metadata_policy.kind = "StrictFresh" THEN TRUE
    ELSE IF at = NoInstant THEN TRUE
    ELSE now - at > metadata_policy.ttl

should_refresh_markets(cache, at) ==
    IF cache = NoCache THEN TRUE
    ELSE IF metadata_policy.kind = "StrictFresh" THEN TRUE
    ELSE IF at = NoInstant THEN TRUE
    ELSE now - at >= metadata_policy.ttl

fetch_markets(c) ==
    { Fail(Net(c, "get_markets"), "HttpError") }
    \cup { [Net(c, "get_markets") EXCEPT !.cache = id, !.at = now]
           : id \in SnapshotIds }

Looked(c, refresh) ==
    [c EXCEPT !.lookups = Append(@, [cache |-> c.cache, at |-> c.at,
                                     refresh |-> refresh])]

ensure_markets(c) ==
    IF should_refresh_markets(c.cache, c.at)
    THEN fetch_markets(Looked(c, TRUE))
    ELSE {Looked(c, FALSE)}

\* the markets of the cached listing whose symbol pair is `symbol`
FindMarket(cache, symbol) ==
    LET ms == MarketsResponses[cache].markets IN
    { i \in 1..Len(ms) : symbol_pair(ms[i]) = symbol }

\* a market is named by its MarketSymbol, the pair "BASE/QUOTE"
get_market(c, symbol) ==
    Bind(ensure_markets(c), LAMBDA c1 :
        LET found == FindMarket(c1.cache, symbol) IN
        IF found = {} THEN {Fail(c1, "MarketNotFound")}
        ELSE LET i == CHOOSE j \in found : \A k \in found : j <= k IN
             {[c1 EXCEPT !.market = MarketsResponses[c1.cache].markets[i]]})

check_session_expiry(expiry) ==
    IF expiry > 0 /\ now >= expiry THEN Err("SessionExpired") ELSE Ok(0)

\* parse_account_nonce over Option<u64>: -1 stands for None
parse_account_nonce(raw_nonce) == IF raw_nonce = -1 THEN 0 ELSE raw_nonce

\* api.get_account_by_id and parse_account_nonce: the lookup fails, or
\* answers with the account's nonce, or with no trade_account object at all
get_nonce(c) ==
    LET c1 == Net(c, "get_account_by_id") IN
    { Fail(c1, "HttpError"),
      [c1 EXCEPT !.fetched = parse_account_nonce(c1.acct)],
      [c1 EXCEPT !.fetched = parse_account_nonce(-1)] }

refresh_nonce(c) ==
    { IF c1.st = "run"
      THEN [c1 EXCEPT !.nonce = c1.fetched, !.writes = Append(@, c1.fetched)]
      ELSE c1
      : c1 \in get_nonce(c) }

\* Session nonces and account nonces of the model stay below MaxNonce
MaxNonce == 2

\* api.rs: an HTTP answer, by what the code looks at.  sent: the request
\* got an answer at all; status_ok: a 2xx status; json: the body is JSON;
\* tx_id, code, message: the field is present; orders: the orders field is
\* "absent", "valid" (decodes as Vec<Order>) or "invalid"
Answer(sent, status_ok, json, tx_id, code, message, orders) ==
    [sent |-> sent, status_ok |-> status_ok, json |-> json, tx_id |-> tx_id,
     code |-> code, message |-> message, orders |-> orders]

\* O2Error::from_code: the typed error of an API error code
from_code(code) == "ApiError"

parse_response(answer) ==
    IF ~answer.status_ok
    THEN IF answer.json /\ answer.code THEN Err(from_code(answer.code))
         ELSE IF answer.json /\ answer.message THEN Err("OnChainRevert")
         ELSE Err("HttpError")
    ELSE IF ~answer.json THEN Err("JsonError")
    ELSE Ok(0)

\* Result<SessionActionsResponse, O2Error> of api.submit_actions: `shape` is
\* "success" for a response with a tx_id and "ambiguous" for one that is
\* neither success nor error; has_orders: the response carries Some(orders);
\* dropped: the decode error of the orders field was turned into None
SubmitResult(ok, err, shape, has_orders, dropped) ==
    [ok |-> ok, err |-> err, shape |-> shape, has_orders |-> has_orders,
     dropped |-> dropped]

\* a submit_actions that decides by the HTTP status alone: a 2xx answer is
\* a success whatever fields it carries
submit_actions_by_status(answer) ==
    IF ~answer.sent THEN SubmitResult(FALSE, "HttpError", "", FALSE, FALSE)
    ELSE IF ~parse_response(answer).ok
    THEN SubmitResult(FALSE, parse_response(answer).err, "", FALSE, FALSE)
    ELSE SubmitResult(TRUE, "", "success", answer.orders = "valid",
                      answer.orders = "invalid")

submit_actions(answer) ==
    IF ~answer.sent THEN SubmitResult(FALSE, "HttpError", "", FALSE, FALSE)
    ELSE IF ~parse_response(answer).ok
    THEN SubmitResult(FALSE, parse_response(answer).err, "", FALSE, FALSE)
    ELSE IF answer.tx_id
    THEN SubmitResult(TRUE, "", "success", answer.orders = "valid",
                      answer.orders = "invalid")
    ELSE IF answer.code
    THEN SubmitResult(FALSE, from_code(answer.code), "", FALSE, FALSE)
    ELSE IF answer.message
    THEN SubmitResult(FALSE, "OnChainRevert", "", FALSE, FALSE)
    ELSE SubmitResult(TRUE, "", "ambiguous", answer.orders = "valid",
                      answer.orders = "invalid")

\* the answers of POST /v1/session/actions the exchange gives: accepted with
\* orders the SDK can or cannot decode, an empty object, a coded pre-flight
\* error, an on-chain revert, a body that is no JSON, and no answer
SubmitAnswers ==
    { Answer(TRUE, TRUE, TRUE, TRUE, FALSE, FALSE, "valid"),
      Answer(TRUE, TRUE, TRUE, TRUE, FALSE, FALSE, "invalid"),
      Answer(TRUE, TRUE, TRUE, FALSE, FALSE, FALSE, "absent"),
      Answer(TRUE, FALSE, TRUE, FALSE, TRUE, TRUE, "absent"),
      Answer(TRUE, TRUE, TRUE, FALSE, FALSE, TRUE, "absent"),
      Answer(TRUE, TRUE, FALSE, FALSE, FALSE, FALSE, "absent"),
      Answer(FALSE, FALSE, FALSE, FALSE, FALSE, FALSE, "absent") }

SubmitOk == {"success", "ambiguous"}
SubmitErr == {"ApiError", "OnChainRevert", "HttpError", "JsonError"}

\* The exchange accepts a request and advances the account nonce, or not.
\* A request whose answer was lost on the way may have been applied.
ServerAfter(acct, outcome) ==
    IF outcome = "success" THEN {acct + 1}
    ELSE IF outcome = "HttpError" THEN {acct, acct + 1}
    ELSE {acct}

Sign(c, key, digest, what, nonce) ==
    [c EXCEPT !.signed = Append(@, [key |-> key, digest |-> digest,
                                    what |-> what, nonce |-> nonce,
                                    n_calls |-> Len(c.calls),
                                    calls |-> c.calls,
                                    canonical |-> c.acct]),
              !.req_nonce = nonce]

\* a nonce step that skips the resync after a failed submit
manage_nonce_no_resync(c, outcome) ==
    LET c1 == [c EXCEPT !.nonce = @ + 1, !.writes = Append(@, c.nonce + 1)] IN
    IF outcome \in SubmitOk THEN {Return(c1, TRUE, "")}
    ELSE {Return(c1, FALSE, outcome)}

\* a nonce step whose failed resync replaces the error of the submit
manage_nonce_resync_error(c, outcome) ==
    LET c1 == [c EXCEPT !.nonce = @ + 1, !.writes = Append(@, c.nonce + 1)] IN
    IF outcome \in SubmitOk THEN {Return(c1, TRUE, "")}
    ELSE { IF c2.st = "run"
           THEN Return([c2 EXCEPT !.resync = "ok"], FALSE, outcome)
           ELSE Return([c2 EXCEPT !.resync = c2.err], FALSE, c2.err)
           : c2 \in refresh_nonce(c1) }

\* a nonce step that leaves the nonce alone when the submit failed
manage_nonce_no_increment(c, outcome) ==
    LET c1 == [c EXCEPT !.nonce = @ + 1, !.writes = Append(@, c.nonce + 1)] IN
    IF outcome \in SubmitOk THEN {Return(c1, TRUE, "")}
    ELSE { IF c2.st = "run"
           THEN Return([c2 EXCEPT !.resync = "ok"], FALSE, outcome)
           ELSE Return([c2 EXCEPT !.resync = c2.err,
                                  !.swallowed = Append(@, "refresh_nonce")],
                       FALSE, outcome)
           : c2 \in refresh_nonce(c) }

\* the match on the result of api.submit_actions in batch_actions_multi
manage_nonce(c, outcome) ==
    LET c1 == [c EXCEPT !.nonce = @ + 1, !.writes = Append(@, c.nonce + 1)] IN
    IF outcome \in SubmitOk THEN {Return(c1, TRUE, "")}
    ELSE { IF c2.st = "run"
           THEN Return([c2 EXCEPT !.resync = "ok"], FALSE, outcome)
           ELSE Return([c2 EXCEPT !.resync = c2.err,
                                  !.swallowed = Append(@, "refresh_nonce")],
                       FALSE, outcome)
           : c2 \in refresh_nonce(c1) }

\* what batch_actions_multi does with the Result `r` of api.submit_actions
\* once the exchange has left the account nonce at `acct`
submitted(c, r, acct) ==
    With(IF r.ok THEN r.shape ELSE r.err, LAMBDA outcome :
        manage_nonce([c EXCEPT !.submit = outcome,
                               !.acct = acct,
                               !.orders = IF r.has_orders THEN "some"
                                          ELSE "none",
                               !.swallowed = IF r.dropped
                                             THEN Append(@, "orders")
                                             ELSE @],
                     outcome))

\* SessionActionsRequest, by its actions and its nonce field
SessionActionsRequest(actions, nonce) == [actions |-> actions, nonce |-> nonce]

\* a submission whose request carries the nonce after the one it signed
sign_and_submit_next_nonce(c) ==
    With(Net([Sign(c, "session", "raw_sign", "actions", c.nonce)
                 EXCEPT !.requests =
                     Append(@, SessionActionsRequest(c.jsons, c.nonce + 1))],
             "submit_actions"), LAMBDA c1 :
        UNION { With(submit_actions(answer), LAMBDA r :
                    UNION { submitted(c1, r, acct)
                            : acct \in ServerAfter(c1.acct,
                                          IF r.ok THEN r.shape ELSE r.err) })
                : answer \in SubmitAnswers })

\* sign the calls at session.nonce with the session key, build the request
\* from all_market_actions and session.nonce, submit
sign_and_submit(c) ==
    With(Net([Sign(c, "session", "raw_sign", "actions", c.nonce)
                 EXCEPT !.requests =
                     Append(@, SessionActionsRequest(c.jsons, c.nonce))],
             "submit_actions"), LAMBDA c1 :
        UNION { With(submit_actions(answer), LAMBDA r :
                    UNION { submitted(c1, r, acct)
                            : acct \in ServerAfter(c1.acct,
                                          IF r.ok THEN r.shape ELSE r.err) })
                : answer \in SubmitAnswers })

\* a conversion loop that signs the calls it has and advances the nonce
\* before it returns the error of the action that failed
RECURSIVE convert_actions_partial(_, _, _, _)
convert_actions_partial(c, actions, trade_account_id, accounts_registry_id) ==
    IF actions = <<>> THEN c
    ELSE With(action_to_call(Head(actions), c.market, trade_account_id,
                             accounts_registry_id), LAMBDA r :
             IF ~r.ok
             THEN FailLocal([Sign(c, "session", "raw_sign", "actions", c.nonce)
                                EXCEPT !.nonce = @ + 1,
                                       !.writes = Append(@, c.nonce + 1)],
                            r.err)
             ELSE convert_actions_partial(
                    [c EXCEPT !.calls = Append(@, r.call),
                              !.actions_json = Append(@, r.json)],
                    Tail(actions), trade_account_id, accounts_registry_id))

RECURSIVE convert_actions(_, _, _, _)
convert_actions(c, actions, trade_account_id, accounts_registry_id) ==
    IF actions = <<>> THEN c
    ELSE With(action_to_call(Head(actions), c.market, trade_account_id,
                             accounts_registry_id), LAMBDA r :
             IF ~r.ok THEN FailLocal(c, r.err)
             ELSE convert_actions(
                    [c EXCEPT !.calls = Append(@, r.call),
                              !.actions_json = Append(@, r.json)],
                    Tail(actions), trade_account_id, accounts_registry_id))

RECURSIVE convert_markets(_, _, _, _)
convert_markets(c, market_actions, trade_account_id, accounts_registry_id) ==
    IF market_actions = <<>> THEN {c}
    ELSE Bind(get_market(c, Head(market_actions).market), LAMBDA c1 :
         With(convert_actions([c1 EXCEPT !.actions_json = <<>>],
                              Head(market_actions).actions,
                              trade_account_id, accounts_registry_id),
              LAMBDA c2 :
                IF c2.st # "run" THEN {c2}
                ELSE convert_markets(
                       [c2 EXCEPT !.jsons =
                           Append(@, [market_id |-> c2.market.market_id,
                                      actions |-> c2.actions_json])],
                       Tail(market_actions), trade_account_id,
                       accounts_registry_id)))

\* a batch_actions_multi that resynchronizes the nonce before it converts
batch_actions_multi_resync_first(c, sess, market_actions) ==
    IF ~check_session_expiry(sess.expiry).ok THEN {Fail(c, "SessionExpired")}
    ELSE Bind(refresh_nonce(c), LAMBDA c0 :
         Bind(ensure_markets(c0), LAMBDA c1 :
        LET accounts_registry_id ==
                MarketsResponses[c1.cache].accounts_registry_id
        IN  IF ~parse_hex_32(accounts_registry_id).ok
            THEN {Fail(c1, "CryptoError")}
            ELSE Bind(convert_markets([c1 EXCEPT !.calls = <<>>,
                                                 !.jsons = <<>>],
                                      market_actions, sess.trade_account_id,
                                      accounts_registry_id),
                      sign_and_submit)))

batch_actions_multi(c, sess, market_actions) ==
    IF ~check_session_expiry(sess.expiry).ok THEN {Fail(c, "SessionExpired")}
    ELSE Bind(ensure_markets(c), LAMBDA c1 :
        LET accounts_registry_id ==
                MarketsResponses[c1.cache].accounts_registry_id
        IN  IF ~parse_hex_32(accounts_registry_id).ok
            THEN {Fail(c1, "CryptoError")}
            ELSE Bind(convert_markets([c1 EXCEPT !.calls = <<>>,
                                                 !.jsons = <<>>],
                                      market_actions, sess.trade_account_id,
                                      accounts_registry_id),
                      sign_and_submit))

batch_actions(c, sess, market_name, actions) ==
    batch_actions_multi(c, sess, <<[market |-> market_name,
                                         actions |-> actions]>>)

(***************************************************************************)
(* decimal.rs and the order inputs of create_order.  A decimal string is   *)
(* [wellformed, sign, m, e]: it reads sign * m / 10^e when well-formed.    *)
(***************************************************************************)
Dec(m, e) == [m |-> m, e |-> e]

DecStr(sign, m, e) == [wellformed |-> TRUE, sign |-> sign, m |-> m, e |-> e]

Garbage == [wellformed |-> FALSE, sign |-> 1, m |-> 0, e |-> 0]

\* UnsignedDecimal::from_str: Decimal::from_str, then UnsignedDecimal::new,
\* which rejects a negative value that is not zero
from_str(text) ==
    IF ~text.wellformed THEN [ok |-> FALSE, v |-> Dec(0, 0), err |-> "Other"]
    ELSE IF text.sign < 0 /\ text.m # 0
    THEN [ok |-> FALSE, v |-> Dec(0, 0), err |-> "Other"]
    ELSE [ok |-> TRUE, v |-> Dec(text.m, text.e), err |-> ""]

\* Decimal's `/` by 10^e: the exact quotient, in its shortest representation
RECURSIVE decimal_div_pow10(_, _)
decimal_div_pow10(m, e) ==
    IF e > 0 /\ m % 10 = 0 THEN decimal_div_pow10(m \div 10, e - 1)
    ELSE Dec(m, e)

\* The shared body of format_price and format_quantity over one asset, for
\* the decimals whose power of ten fits a u64.
format_asset(asset, chain_value) ==
    decimal_div_pow10(chain_value, asset.decimals)

\* a format_price that divides by the base asset's power of ten
format_price_base_decimals(market, chain_value) ==
    format_asset(market.base, chain_value)

format_price(market, chain_value) == format_asset(market.quote, chain_value)

format_quantity(market, chain_value) == format_asset(market.base, chain_value)

\* price.try_into()? and the binding check of a typed Price / Quantity:
\* an input is a decimal string (Unchecked once parsed) or a typed wrapper
\* (Checked) that either is bound to the resolved market or is not
order_input(input, market) ==
    IF input.kind = "text" THEN from_str(input.text)
    ELSE IF input.bound_to # market.market_id
    THEN [ok |-> FALSE, v |-> Dec(0, 0), err |-> "InvalidOrderParams"]
    ELSE [ok |-> TRUE, v |-> input.value, err |-> ""]

Text(t) == [kind |-> "text", text |-> t, bound_to |-> "", value |-> Dec(0, 0)]

Typed(v, market_id) ==
    [kind |-> "typed", text |-> Garbage, bound_to |-> market_id, value |-> v]

CreateOrderAction(side, price, quantity, order_type) ==
    [type |-> "CreateOrder", side |-> side, price |-> price,
     quantity |-> quantity, order_type |-> order_type]

create_order(c, sess, market_name, side, price, quantity, order_type, settle_first) ==
    Bind(get_market(c, market_name), LAMBDA c1 :
        LET p == order_input(price, c1.market)
            q == order_input(quantity, c1.market)
            order == CreateOrderAction(side, p.v, q.v, order_type)
        IN  IF ~p.ok THEN {FailLocal(c1, p.err)}
            ELSE IF ~q.ok THEN {FailLocal(c1, q.err)}
            ELSE batch_actions(c1, sess, symbol_pair(c1.market),
                               IF settle_first
                               THEN <<[type |-> "SettleBalance"], order>>
                               ELSE <<order>>))

cancel_order(c, sess, order_id, market_name) ==
    batch_actions(c, sess, market_name,
                  <<[type |-> "CancelOrder", order_id |-> order_id]>>)

settle_balance(c, sess, market_name) ==
    batch_actions(c, sess, market_name, <<[type |-> "SettleBalance"]>>)

\* orders.chunks(5)
CANCEL_CHUNK == 5

\* build_cancel_actions: order ids that are empty are skipped
RECURSIVE build_cancel_actions(_)
build_cancel_actions(order_ids) ==
    IF order_ids = <<>> THEN <<>>
    ELSE IF Head(order_ids) = "" THEN build_cancel_actions(Tail(order_ids))
    ELSE <<[type |-> "CancelOrder", order_id |-> Head(order_ids)]>>
         \o build_cancel_actions(Tail(order_ids))

Take(seq, n) == SubSeq(seq, 1, IF Len(seq) < n THEN Len(seq) ELSE n)

Drop(seq, n) == SubSeq(seq, n + 1, Len(seq))

\* the loop of cancel_all_orders over the chunks of the open orders; the
\* session nonce of the next batch is the one the last batch left
RECURSIVE cancel_chunks(_, _, _, _)
cancel_chunks(c, sess, market_name, orders) ==
    IF orders = <<>> THEN {Return(c, TRUE, "")}
    ELSE LET actions == build_cancel_actions(Take(orders, CANCEL_CHUNK)) IN
         IF actions = <<>>
         THEN cancel_chunks(c, sess, market_name, Drop(orders, CANCEL_CHUNK))
         ELSE UNION { IF c1.ok
                      THEN cancel_chunks([c1 EXCEPT !.st = "run",
                                                    !.results = @ + 1],
                                         sess, market_name,
                                         Drop(orders, CANCEL_CHUNK))
                      ELSE {c1}
                      : c1 \in batch_actions(c, sess, market_name, actions) }

\* the count cancel_all_orders passes to get_orders (200), scaled
OrdersPage == 6

\* the open orders an account can have in the market, in the order
\* GET /v1/orders lists them: none, one, one with an empty id, more than a
\* chunk, and more than the count of one request
OpenOrderLists ==
    { <<>>, <<"0xo1">>, <<"", "0xo2">>,
      <<"0xo1", "0xo2", "0xo1", "0xo2", "0xo1", "0xo2">>,
      [i \in 1..(OrdersPage + 1) |-> IF i % 2 = 1 THEN "0xo1" ELSE "0xo2"] }

\* GET /v1/orders with direction desc, is_open true, no start: the server
\* answers with at most `count` of the open orders
get_orders(open, count) == Take(open, count)

cancel_all_orders(c, sess, market_name) ==
    IF ~check_session_expiry(sess.expiry).ok
    THEN {Fail(c, "SessionExpired")}
    ELSE Bind(get_market(c, market_name), LAMBDA c1 :
        LET c2 == Net(c1, "get_orders") IN
        {Fail(c2, "HttpError")}
        \cup UNION { cancel_chunks([c2 EXCEPT !.open = open], sess,
                                   market_name, get_orders(open, OrdersPage))
                     : open \in OpenOrderLists })

(***************************************************************************)
(* Sessions and withdrawals.                                               *)
(***************************************************************************)
\* SignableWallet::personal_sign: a Wallet signs with personal_sign, an
\* EvmWallet with evm_personal_sign
wallet_personal_sign(owner) ==
    IF owner = "EvmWallet" THEN "evm_personal_sign" ELSE "personal_sign"

\* the key a wallet signs with is the owner's long-lived key
wallet_key(owner) == "owner"

\* api.get_account_by_owner: fails, knows no trade account, or answers with
\* the trade account id and the account's nonce (or no trade_account object)
get_account_by_owner(c) ==
    LET c1 == Net(c, "get_account_by_owner") IN
    { Fail(c1, "HttpError"),
      Fail(c1, "AccountNotFound"),
      [c1 EXCEPT !.fetched = parse_account_nonce(c1.acct)],
      [c1 EXCEPT !.fetched = parse_account_nonce(-1)] }

\* the errors a PUT /v1/session or POST /v1/accounts/withdraw can end with
RequestErr == {"ApiError", "HttpError"}

RECURSIVE resolve_contract_ids(_, _)
resolve_contract_ids(c, market_names) ==
    IF market_names = <<>> THEN {c}
    ELSE Bind(get_market(c, Head(market_names)), LAMBDA c1 :
            IF ~parse_hex_32(c1.market.contract_id).ok
            THEN {Fail(c1, "CryptoError")}
            ELSE resolve_contract_ids(c1, Tail(market_names)))

\* a create_session_until that hands out the session at the nonce it signed
create_session_until_same_nonce(c, owner, market_names, expiry_unix_secs) ==
    Bind(resolve_contract_ids(c, market_names), LAMBDA c1 :
    Bind(ensure_markets(c1), LAMBDA c2 :
    Bind(get_account_by_owner(c2), LAMBDA c3 :
        LET nonce == c3.fetched
            c4 == Net(Sign(c3, "owner", wallet_personal_sign(owner),
                           "set_session", nonce), "create_session")
        IN  { Return([c4 EXCEPT !.acct = @ + 1, !.nonce = nonce,
                                !.writes = <<nonce>>,
                                !.expiry = expiry_unix_secs], TRUE, "") }
            \cup UNION { { Fail([c4 EXCEPT !.acct = acct], e)
                           : acct \in ServerAfter(c4.acct, e) }
                         : e \in RequestErr })))

create_session_until(c, owner, market_names, expiry_unix_secs) ==
    Bind(resolve_contract_ids(c, market_names), LAMBDA c1 :
    Bind(ensure_markets(c1), LAMBDA c2 :
    Bind(get_account_by_owner(c2), LAMBDA c3 :
        LET nonce == c3.fetched
            c4 == Net(Sign(c3, "owner", wallet_personal_sign(owner),
                           "set_session", nonce), "create_session")
        IN  { Return([c4 EXCEPT !.acct = @ + 1, !.nonce = nonce + 1,
                                !.writes = <<nonce + 1>>,
                                !.expiry = expiry_unix_secs], TRUE, "") }
            \cup UNION { { Fail([c4 EXCEPT !.acct = acct], e)
                           : acct \in ServerAfter(c4.acct, e) }
                         : e \in RequestErr })))

create_session(c, owner, market_names, ttl_secs) ==
    IF ttl_secs = 0 THEN {Fail(c, "InvalidSession")}
    ELSE create_session_until(c, owner, market_names, now + ttl_secs)

\* a withdraw signed by the session key with raw_sign
withdraw_session_signed(c, owner, sess, asset_id, amount_ok, to) ==
    IF ~parse_hex_32(to).ok THEN {Fail(c, "CryptoError")}
    ELSE IF ~parse_hex_32(asset_id).ok THEN {Fail(c, "CryptoError")}
    ELSE IF ~amount_ok THEN {Fail(c, "Other")}
    ELSE Bind(get_nonce(c), LAMBDA c1 :
         Bind(ensure_markets(c1), LAMBDA c2 :
            LET c3 == Net(Sign(c2, "session", "raw_sign", "withdraw",
                               c2.fetched), "withdraw")
            IN  { Return([c3 EXCEPT !.acct = @ + 1], TRUE, "") }
                \cup UNION { { Fail([c3 EXCEPT !.acct = acct], e)
                               : acct \in ServerAfter(c3.acct, e) }
                             : e \in RequestErr }))

\* `to` is the destination, the owner's own address when the caller gave none
withdraw(c, owner, sess, asset_id, amount_ok, to) ==
    IF ~parse_hex_32(to).ok THEN {Fail(c, "CryptoError")}
    ELSE IF ~parse_hex_32(asset_id).ok THEN {Fail(c, "CryptoError")}
    ELSE IF ~amount_ok THEN {Fail(c, "Other")}
    ELSE Bind(get_nonce(c), LAMBDA c1 :
         Bind(ensure_markets(c1), LAMBDA c2 :
            LET c3 == Net(Sign(c2, wallet_key(owner),
                               wallet_personal_sign(owner), "withdraw",
                               c2.fetched), "withdraw")
            IN  { Return([c3 EXCEPT !.acct = @ + 1], TRUE, "") }
                \cup UNION { { Fail([c3 EXCEPT !.acct = acct], e)
                               : acct \in ServerAfter(c3.acct, e) }
                             : e \in RequestErr }))

(***************************************************************************)
(* The state machine.  One action per public operation of O2Client; the    *)
(* caller owns one Session at a time and calls the client sequentially.    *)
(***************************************************************************)
\* the clock runs from 1 to MaxTime
MaxTime == 2
\* OptimisticTtl(DefaultTtl) is the policy of a new client
DefaultTtl == 1

Policies == {[kind |-> "StrictFresh", ttl |-> 0],
             [kind |-> "OptimisticTtl", ttl |-> DefaultTtl]}

\* driven: create_session signed the account's nonce and since it returned
\* this Session the account has
\* been written only by this client's accepted batches, by failed
\* submissions whose resync answered, and by withdrawals
NoSession == [live |-> FALSE, trade_account_id |-> "", expiry |-> 0,
              nonce |-> 0, driven |-> FALSE]

NoLast == [op |-> "", ok |-> TRUE, err |-> "", local |-> FALSE,
           now |-> 0, expiry |-> 0, nonce_before |-> 0,
           net |-> <<>>, signed |-> <<>>, writes |-> <<>>,
           submit |-> "", resync |-> "", fetched |-> -1, req_nonce |-> -1,
           calls |-> <<>>, jsons |-> <<>>, results |-> 0, nonce_after |-> 0,
           orders |-> "none", swallowed |-> <<>>, open |-> <<>>,
           lookups |-> <<>>, requests |-> <<>>]

NoCalc == [fn |-> "", market |-> NoMarket, price |-> 0, quantity |-> 0,
           e |-> 0, side |-> "", out |-> Ok(0), call |-> NoCall,
           formatted |-> Dec(0, 0), again |-> Ok(0),
           action |-> [type |-> ""], registry |-> ""]

Init ==
    /\ now = 1
    /\ accountNonce = 0
    /\ markets_cache = NoCache
    /\ markets_cache_at = NoInstant
    /\ metadata_policy = [kind |-> "OptimisticTtl", ttl |-> DefaultTtl]
    /\ session = NoSession
    /\ last = NoLast
    /\ calc = NoCalc

\* what a returned handler leaves behind: the cache, the account on the
\* server, and `last`, the record of the call.  `last` describes the call
\* the last step made; a step of the environment empties it.
Done(op, c, sess) ==
    /\ markets_cache' = c.cache
    /\ markets_cache_at' = c.at
    /\ accountNonce' = c.acct
    /\ last' = [op |-> op, ok |-> c.ok, err |-> c.err, local |-> c.local,
                now |-> now, expiry |-> sess.expiry,
                nonce_before |-> sess.nonce,
                net |-> c.net, signed |-> c.signed, writes |-> c.writes,
                submit |-> c.submit, resync |-> c.resync,
                fetched |-> c.fetched, req_nonce |-> c.req_nonce,
                calls |-> c.calls, jsons |-> c.jsons, results |-> c.results,
                nonce_after |-> c.nonce, orders |-> c.orders,
                swallowed |-> c.swallowed, open |-> c.open,
                lookups |-> c.lookups, requests |-> c.requests]
    /\ UNCHANGED <<now, metadata_policy, calc>>

\* the call that returned with c is one the account stays `driven` with:
\* a withdrawal whose lookup gave the account's nonce; a batch handler whose
\* submissions were accepted one after the other, the last one accepted or
\* failed with a resync that answered with the account's nonce
StaysDriven(op, c) ==
    LET n == Len(c.signed) IN
    IF op = "withdraw" THEN c.fetched \in {-1, accountNonce}
    ELSE IF op = "refresh_nonce" THEN FALSE
    ELSE /\ \A i \in 2..n :
              c.signed[i].canonical = c.signed[i - 1].canonical + 1
         /\ n > 0 => \/ c.submit = "success"
                      \/ /\ c.submit \in SubmitErr
                         /\ c.resync = "ok"
                         /\ c.fetched = c.acct

\* a handler that holds `&mut Session` leaves the nonce it wrote
DoneSession(op, c) ==
    /\ Done(op, c, session)
    /\ session' = [session EXCEPT !.nonce = c.nonce,
                                  !.driven = @ /\ StaysDriven(op, c)]

\* a submitting handler runs while the session's nonce is below MaxNonce
\* and the account's nonce is at most MaxNonce
Budget == session.live /\ session.nonce < MaxNonce /\ accountNonce <= MaxNonce

Tick ==
    /\ now < MaxTime
    /\ now' = now + 1
    /\ last' = NoLast
    /\ UNCHANGED <<accountNonce, markets_cache, markets_cache_at,
                   metadata_policy, session, calc>>

\* another writer of the same account (another session, the owner)
\* consumes a nonce
ServerAdvanceNonce ==
    /\ accountNonce < MaxNonce
    /\ accountNonce' = accountNonce + 1
    /\ last' = NoLast
    /\ session' = [session EXCEPT !.driven = FALSE]
    /\ UNCHANGED <<now, markets_cache, markets_cache_at, metadata_policy,
                   calc>>

SetMetadataPolicy ==
    \E p \in Policies :
        /\ metadata_policy' = p
        /\ last' = NoLast
        /\ UNCHANGED <<now, accountNonce, markets_cache, markets_cache_at,
                       session, calc>>

Owners == {"Wallet", "EvmWallet"}

CreateSessionUntil ==
    /\ accountNonce < MaxNonce
    /\ \E names \in {<<"A/B">>, <<"X/Y">>}, expiry \in 0..MaxTime :
       \E c \in create_session_until(NewCtx(0), "Wallet", names, expiry) :
          /\ Done("create_session_until", c, [expiry |-> expiry, nonce |-> 0])
          /\ session' = IF c.ok
                        THEN [live |-> TRUE, trade_account_id |-> "0xacct",
                              expiry |-> c.expiry, nonce |-> c.nonce,
                              driven |-> c.fetched = accountNonce]
                        ELSE [session EXCEPT
                                 !.driven = @ /\ c.acct = accountNonce]

CreateSession ==
    /\ accountNonce < MaxNonce
    /\ \E owner \in Owners, ttl \in 0..1 :
       \E c \in create_session(NewCtx(0), owner, <<"A/B">>, ttl) :
          /\ Done("create_session", c, [expiry |-> now + ttl, nonce |-> 0])
          /\ session' = IF c.ok
                        THEN [live |-> TRUE, trade_account_id |-> "0xacct",
                              expiry |-> c.expiry, nonce |-> c.nonce,
                              driven |-> c.fetched = accountNonce]
                        ELSE [session EXCEPT
                                 !.driven = @ /\ c.acct = accountNonce]

Settle == [type |-> "SettleBalance"]
Cancel(id) == [type |-> "CancelOrder", order_id |-> id]
Spot == [kind |-> "Spot"]

\* a valid Buy, a Sell below min_order, and an order whose price does not
\* fit the model's u64 once scaled
BuyOk == CreateOrderAction("Buy", Dec(15, 1), Dec(2, 0), Spot)
SellSmall == CreateOrderAction("Sell", Dec(1, 1), Dec(1, 0), Spot)
BuyTooLarge == CreateOrderAction("Buy", Dec(30, 0), Dec(2, 0), Spot)

Entry(m, a) == [market |-> m, actions |-> a]

BatchInputs ==
    { <<Entry("A/B", <<Settle>>)>>, <<Entry("A/B", <<BuyOk>>)>>,
      <<Entry("A/B", <<SellSmall>>)>>, <<Entry("A/B", <<BuyTooLarge>>)>>,
      <<Entry("A/B", <<Cancel("zz")>>)>>, <<Entry("X/Y", <<Settle>>)>>,
      <<Entry("A/B", <<Cancel("0xo1"), BuyOk>>), Entry("C/D", <<Settle>>)>>,
      <<Entry("A/B", <<Settle, SellSmall>>)>>,
      <<Entry("C/D", <<Settle>>), Entry("A/B", <<Cancel("zz")>>)>>,
      <<Entry("A/B", <<Settle>>), Entry("X/Y", <<Settle>>)>> }

BatchActionsMulti ==
    /\ Budget
    /\ \E market_actions \in BatchInputs :
       \E c \in batch_actions_multi(NewCtx(session.nonce), session,
                                    market_actions) :
          DoneSession("batch_actions_multi", c)

BatchActions ==
    /\ Budget
    /\ \E m \in {"A/B", "X/Y"}, a \in {<<Settle>>, <<SellSmall>>} :
       \E c \in batch_actions(NewCtx(session.nonce), session, m, a) :
          DoneSession("batch_actions", c)

\* create_order calls: market, side, price, quantity, settle_first
OrderCalls ==
    { <<"A/B", "Buy", Text(DecStr(1, 15, 1)), Text(DecStr(1, 2, 0)), FALSE>>,
      <<"A/B", "Sell", Text(DecStr(1, 1, 1)), Text(DecStr(1, 1, 0)), FALSE>>,
      <<"A/B", "Buy", Text(Garbage), Text(DecStr(1, 2, 0)), FALSE>>,
      <<"A/B", "Sell", Text(DecStr(1, 15, 1)), Text(DecStr(-1, 2, 0)), TRUE>>,
      <<"A/B", "Buy", Typed(Dec(15, 1), "0xm1"), Typed(Dec(2, 0), "0xm2"),
        FALSE>>,
      <<"A/B", "Sell", Typed(Dec(15, 1), "0xm1"), Typed(Dec(2, 0), "0xm1"),
        TRUE>>,
      <<"X/Y", "Buy", Text(DecStr(1, 15, 1)), Text(DecStr(1, 2, 0)), FALSE>> }

CreateOrder ==
    /\ Budget
    /\ \E o \in OrderCalls :
       \E c \in create_order(NewCtx(session.nonce), session, o[1], o[2],
                             o[3], o[4], Spot, o[5]) :
          DoneSession("create_order", c)

CancelOrder ==
    /\ Budget
    /\ \E m \in {"A/B", "X/Y"}, id \in {"0xo1", "zz"} :
       \E c \in cancel_order(NewCtx(session.nonce), session, id, m) :
          DoneSession("cancel_order", c)

SettleBalance ==
    /\ Budget
    /\ \E m \in {"A/B", "X/Y"} :
       \E c \in settle_balance(NewCtx(session.nonce), session, m) :
          DoneSession("settle_balance", c)

CancelAllOrders ==
    /\ Budget
    /\ \E m \in {"A/B", "X/Y"} :
       \E c \in cancel_all_orders(NewCtx(session.nonce), session, m) :
          DoneSession("cancel_all_orders", c)

RefreshNonce ==
    /\ session.live
    /\ \E c \in refresh_nonce(NewCtx(session.nonce)) :
          DoneSession("refresh_nonce",
                      IF c.st = "run" THEN Return(c, TRUE, "") ELSE c)

\* withdraw calls: asset_id, whether the amount parses, destination
WithdrawCalls ==
    { <<"0xbase", TRUE, "0xowner">>, <<"zz", TRUE, "0xowner">>,
      <<"0xbase", FALSE, "0xowner">>, <<"0xbase", TRUE, "zz">> }

Withdraw ==
    /\ session.live
    /\ accountNonce < MaxNonce
    /\ \E owner \in Owners, w \in WithdrawCalls :
       \E c \in withdraw(NewCtx(session.nonce), owner, session, w[1], w[2],
                         w[3]) :
          /\ Done("withdraw", c, session)
          /\ session' = [session EXCEPT
                            !.driven = @ /\ StaysDriven("withdraw", c)]

Next ==
    \/ Tick
    \/ ServerAdvanceNonce
    \/ SetMetadataPolicy
    \/ CreateSessionUntil
    \/ CreateSession
    \/ BatchActionsMulti
    \/ BatchActions
    \/ CreateOrder
    \/ CancelOrder
    \/ SettleBalance
    \/ CancelAllOrders
    \/ RefreshNonce
    \/ Withdraw

Spec == Init /\ [][Next]_vars

(***************************************************************************)
(* Properties of the orchestrator, checked under Spec.  They read `last`,  *)
(* the record of the call that has just returned.                          *)
(***************************************************************************)
BatchOps == {"batch_actions_multi", "batch_actions", "create_order",
             "cancel_order", "settle_balance"}

TradingOps == BatchOps \cup {"cancel_all_orders"}

SessionOps == {"create_session", "create_session_until"}

Count(seq, x) == Cardinality({ i \in DOMAIN seq : seq[i] = x })

\* the batch of the last call reached the API
Reached == last.op \in BatchOps /\ last.submit # ""

\* the call looked the account nonce up after it had submitted
Refetched ==
    /\ Count(last.net, "get_account_by_id") = 1
    /\ last.net[Len(last.net)] = "get_account_by_id"

\* C1 as amended: after every batch submission that reaches the API the
\* session nonce has been incremented by exactly one, on success as well as
\* on failure; the account nonce is re-fetched exactly when the submit
\* failed, and after a successful submit the nonce stays the incremented one.
C1_IncrementedOnEveryOutcome ==
    Reached =>
        /\ Len(last.writes) >= 1
        /\ last.writes[1] = last.nonce_before + 1
        /\ last.submit \in SubmitErr <=> Refetched
        /\ last.submit \in SubmitOk =>
              /\ Count(last.net, "get_account_by_id") = 0
              /\ last.writes = <<last.nonce_before + 1>>
              /\ last.nonce_after = last.nonce_before + 1

\* a successful batch returned with the nonce incremented and no lookup
C1_Witness ==
    /\ Reached
    /\ last.submit = "success"
    /\ last.nonce_after = last.nonce_before + 1
    /\ Count(last.net, "get_account_by_id") = 0

\* C1 as stated: whatever the outcome, success as well as failure, the
\* nonce is incremented by exactly one and then re-fetched from the
\* account's canonical nonce before the call returns.
C1_AsStated ==
    Reached =>
        /\ Len(last.writes) >= 1
        /\ last.writes[1] = last.nonce_before + 1
        /\ Refetched

\* C2 as amended: when the submit fails, for every error kind, the nonce is
\* incremented exactly once and one account lookup follows; when the lookup
\* answers, its nonce overwrites the session nonce, and when the lookup
\* fails the session nonce stays the incremented one.
C2_FailureIncrementsOnceThenResyncs ==
    last.op \in BatchOps /\ last.submit \in SubmitErr =>
        /\ Refetched
        /\ IF last.resync = "ok"
           THEN /\ last.writes = <<last.nonce_before + 1, last.fetched>>
                /\ last.nonce_after = last.fetched
           ELSE /\ last.writes = <<last.nonce_before + 1>>
                /\ last.nonce_after = last.nonce_before + 1

\* the submit and the lookup after it both failed
C2_Witness ==
    /\ last.op \in BatchOps
    /\ last.submit = "HttpError"
    /\ last.resync = "HttpError"
    /\ last.nonce_after = last.nonce_before + 1

\* C2 as stated: when the submit fails the nonce is incremented exactly
\* once and is then overwritten by the nonce a fresh account lookup returned.
C2_AsStated ==
    last.op \in BatchOps /\ last.submit \in SubmitErr =>
        /\ last.writes = <<last.nonce_before + 1, last.fetched>>
        /\ last.nonce_after = last.fetched

\* what the call returned is what the submit produced
ResultIsSubmitResult ==
    /\ last.submit \in SubmitOk => last.ok
    /\ last.submit \in SubmitErr => ~last.ok /\ last.err = last.submit
    /\ last.resync \notin {"", "ok"} =>
          /\ last.err = last.submit
          /\ Count(last.swallowed, "refresh_nonce") = 1

\* C3 as amended: a batch submission returns exactly the success or error
\* the submit call produced; a failure of the nonce resync is swallowed and
\* never replaces the primary error; the only other error dropped on the
\* way is the decode error of the response's orders list inside the submit
\* call, which comes back as a success without orders.
C3_ResultIsSubmitResult ==
    last.op \in BatchOps =>
        /\ last.ok => last.submit \in SubmitOk
        /\ last.submit # "" => ResultIsSubmitResult
        /\ \A i \in DOMAIN last.swallowed :
              last.swallowed[i] \in {"refresh_nonce", "orders"}

\* an on-chain revert came back although the resync after it failed
C3_Witness ==
    /\ last.op \in BatchOps
    /\ last.submit = "OnChainRevert"
    /\ last.resync = "HttpError"
    /\ ~last.ok
    /\ last.err = "OnChainRevert"

\* C3 as stated: the result is exactly the submit's, the failure of the
\* resync is swallowed, and it is the only error swallowed on the
\* submission path.
C3_AsStated ==
    last.op \in BatchOps =>
        /\ last.ok => last.submit \in SubmitOk
        /\ last.submit # "" => ResultIsSubmitResult
        /\ \A i \in DOMAIN last.swallowed :
              last.swallowed[i] = "refresh_nonce"

\* session.expiry had passed when the last call was invoked
Expired == last.expiry > 0 /\ last.now >= last.expiry

\* C4: a trading operation invoked with an expired session fails with
\* SessionExpired before any network call, and leaves session.nonce alone.
C4_ExpiredRejectedBeforeNetwork ==
    last.op \in TradingOps /\ Expired =>
        /\ ~last.ok
        /\ last.err = "SessionExpired"
        /\ last.net = <<>>
        /\ last.nonce_after = last.nonce_before

\* C5: create_session / create_session_until signs and submits the
\* registration with the account's current nonce n and returns a Session
\* with nonce n + 1 only when the registration succeeded; on any failure no
\* Session is returned.
C5_SessionStartsAfterAccountNonce ==
    last.op \in SessionOps =>
        /\ last.ok =>
              /\ Len(last.signed) = 1
              /\ last.signed[1].what = "set_session"
              /\ last.signed[1].nonce = last.fetched
              /\ last.req_nonce = last.fetched
              /\ last.net[Len(last.net)] = "create_session"
              /\ last.writes = <<last.fetched + 1>>
              /\ session.live /\ session.nonce = last.fetched + 1
        /\ ~last.ok => last.writes = <<>>

\* a session was created on an account whose nonce had already advanced
C5_Witness ==
    /\ last.op \in SessionOps
    /\ last.ok
    /\ last.fetched >= 1
    /\ session.nonce = last.fetched + 1

WalletSchemes == {"personal_sign", "evm_personal_sign"}

Signs(what, key, digests) ==
    \A i \in DOMAIN last.signed :
        last.signed[i].what = what =>
            /\ last.signed[i].key = key
            /\ last.signed[i].digest \in digests

\* what each operation signs
SignsItsKind ==
    \A i \in DOMAIN last.signed :
        last.signed[i].what =
            IF last.op \in SessionOps THEN "set_session"
            ELSE IF last.op = "withdraw" THEN "withdraw"
            ELSE "actions"

\* C6 as amended: session creation is signed by the long-lived owner key
\* with the owner wallet's personal_sign, action batches by the session key
\* with raw_sign, and withdrawals by the owner key with the owner wallet's
\* personal_sign.
C6_SigningKeyPerKind ==
    /\ SignsItsKind
    /\ Signs("set_session", "owner", WalletSchemes)
    /\ Signs("actions", "session", {"raw_sign"})
    /\ Signs("withdraw", "owner", WalletSchemes)

\* a withdrawal went out, signed by the owner key with personal_sign
C6_Witness ==
    /\ last.op = "withdraw"
    /\ last.ok
    /\ Len(last.signed) = 1
    /\ last.signed[1].key = "owner"
    /\ last.signed[1].digest = "personal_sign"

\* C6 as stated: session creation is signed by the owner key with
\* personal_sign, action batches by the session key with raw_sign, and
\* withdrawals by the session key with raw_sign.
C6_AsStated ==
    /\ SignsItsKind
    /\ Signs("set_session", "owner", WalletSchemes)
    /\ Signs("actions", "session", {"raw_sign"})
    /\ Signs("withdraw", "session", {"raw_sign"})

\* C7 as amended: a local validation error of an order is raised before
\* anything is signed or submitted and before any account lookup, with the
\* session nonce unchanged; the only network call that can precede it is
\* the fetch of the market metadata; nothing is retried.
C7_LocalErrorBeforeSubmission ==
    last.local =>
        /\ ~last.ok
        /\ last.signed = <<>>
        /\ last.submit = ""
        /\ last.writes = <<>>
        /\ last.nonce_after = last.nonce_before
        /\ \A i \in DOMAIN last.net : last.net[i] = "get_markets"

\* an order below min_order was refused after the markets had been fetched
C7_Witness ==
    /\ last.local
    /\ last.op \in BatchOps
    /\ last.err = "InvalidOrderParams"
    /\ last.net = <<"get_markets">>

\* C7 as stated: a local validation error of an order is raised before
\* any network call is made for the operation, and nothing is retried.
C7_AsStated ==
    last.local =>
        /\ ~last.ok
        /\ last.net = <<>>

(***************************************************************************)
(* The market arithmetic on its own: a market, a price and a quantity are  *)
(* drawn, and each step applies one function of models.rs / encoding.rs to *)
(* them.  calc.out is the Result of the function, calc.call the CallArg.   *)
(***************************************************************************)
\* the scaled amounts tried: the small ones and the largest of the width
Samples == 0..MaxSample \cup {U64_MAX - 1, U64_MAX}

MinOrders == {0, 1, 3}

\* a human value is calc.price or calc.quantity over 10^e, e in 0..MaxExp
MaxExp == 1

\* the quote assets of the markets: (decimals, max_precision)
CalcQuotes == {Asset("B", "0xquote", 1, 1), Asset("B", "0xquote", 2, 0)}

CalcMarkets ==
    { MakeMarket("0xc1", "0xm1", min_order,
                 Asset("A", "0xbase", d, mp), quote)
      : min_order \in MinOrders,
        d \in 0..MaxDecimals, mp \in {0, 1}, quote \in CalcQuotes }

InitCalc ==
    /\ now = 1
    /\ accountNonce = 0
    /\ markets_cache = NoCache
    /\ markets_cache_at = NoInstant
    /\ metadata_policy = [kind |-> "OptimisticTtl", ttl |-> DefaultTtl]
    /\ session = NoSession
    /\ last = NoLast
    /\ \E market \in CalcMarkets, price \in Samples, quantity \in Samples,
          e \in 0..MaxExp :
          calc = [NoCalc EXCEPT !.market = market, !.price = price,
                                !.quantity = quantity, !.e = e]

\* the market and the values drawn at the start, and no result
CalcInputs ==
    [NoCalc EXCEPT !.market = calc.market, !.price = calc.price,
                   !.quantity = calc.quantity, !.e = calc.e]

Applied(fn, side, out, call) ==
    /\ calc' = [CalcInputs EXCEPT !.fn = fn, !.side = side, !.out = out,
                                  !.call = call]
    /\ UNCHANGED <<now, accountNonce, markets_cache, markets_cache_at,
                   metadata_policy, session, last>>

ScalePriceStep ==
    Applied("scale_price", "",
            scale_price(calc.market, Dec(calc.price, calc.e)), NoCall)

ScaleQuantityStep ==
    Applied("scale_quantity", "",
            scale_quantity(calc.market, Dec(calc.quantity, calc.e)), NoCall)

AdjustQuantityStep ==
    Applied("adjust_quantity", "",
            adjust_quantity(calc.market, calc.price, calc.quantity), NoCall)

ValidateOrderStep ==
    Applied("validate_order", "",
            validate_order(calc.market, calc.price, calc.quantity), NoCall)

\* action_to_call reaches create_order_to_call only with a base_decimals
\* whose power of ten validate_order could compute
CreateOrderToCallStep ==
    /\ checked_pow_u128(calc.market.base.decimals).ok
    /\ \E side \in {"Buy", "Sell"} :
          Applied("create_order_to_call", side, Ok(0),
                  create_order_to_call(calc.market.contract_id, side,
                                       calc.price, calc.quantity, <<1>>,
                                       calc.market.base.decimals,
                                       calc.market.base.asset,
                                       calc.market.quote.asset))

\* scale, format the scaled value, scale the formatted value again
RoundTrip(fn, out, formatted, again) ==
    /\ out.ok
    /\ calc' = [CalcInputs EXCEPT !.fn = fn, !.out = out,
                                  !.formatted = formatted,
                                  !.again = again]
    /\ UNCHANGED <<now, accountNonce, markets_cache, markets_cache_at,
                   metadata_policy, session, last>>

RoundTripPriceStep ==
    With(scale_price(calc.market, Dec(calc.price, calc.e)), LAMBDA out :
    With(format_price(calc.market, out.v), LAMBDA formatted :
        RoundTrip("round_trip_price", out, formatted,
                  scale_price(calc.market, formatted))))

RoundTripQuantityStep ==
    With(scale_quantity(calc.market, Dec(calc.quantity, calc.e)), LAMBDA out :
    With(format_quantity(calc.market, out.v), LAMBDA formatted :
        RoundTrip("round_trip_quantity", out, formatted,
                  scale_quantity(calc.market, formatted))))

RegisterReferer(disc, addr) ==
    [type |-> "RegisterReferer", to |-> [disc |-> disc, addr |-> addr]]

\* None and Some(id) of the accounts registry
Registries == {"", "0xreg"}

\* the conversions applied to the market and the values drawn at the start:
\* an order of either side, a cancellation and a settlement, which do not
\* read the registry, and a referer registration with and without one
CalcActions ==
    { <<CreateOrderAction(side, Dec(calc.price, calc.e),
                          Dec(calc.quantity, calc.e), Spot), "0xreg">>
      : side \in {"Buy", "Sell"} }
    \cup {<<Cancel("0xo1"), "">>, <<Settle, "0xreg">>}
    \cup { <<RegisterReferer(0, "0xref"), registry>>
           : registry \in Registries }

ActionToCallStep ==
    \E input \in CalcActions :
        With(action_to_call(input[1], calc.market, "0xacct", input[2]),
             LAMBDA r :
                /\ calc' = [CalcInputs EXCEPT
                              !.fn = "action_to_call",
                              !.side = IF input[1].type = "CreateOrder"
                                       THEN input[1].side ELSE "",
                              !.out = IF r.ok THEN Ok(0) ELSE Err(r.err),
                              !.call = r.call,
                              !.action = input[1],
                              !.registry = input[2]]
                /\ UNCHANGED <<now, accountNonce, markets_cache,
                               markets_cache_at, metadata_policy, session,
                               last>>)

NextCalc ==
    \/ ActionToCallStep
    \/ ScalePriceStep
    \/ ScaleQuantityStep
    \/ AdjustQuantityStep
    \/ ValidateOrderStep
    \/ CreateOrderToCallStep
    \/ RoundTripPriceStep
    \/ RoundTripQuantityStep

SpecCalc == InitCalc /\ [][NextCalc]_vars

(***************************************************************************)
(* encoding.rs: the byte layouts.  A byte string is a sequence of numbers  *)
(* 0..255; a 32-byte id is 32 bytes; a u64 takes 8 bytes, big-endian.      *)
(***************************************************************************)
RECURSIVE big_endian(_, _)
big_endian(value, n) ==
    IF n = 0 THEN <<>>
    ELSE Append(big_endian(value \div 256, n - 1), value % 256)

u64_be(value) == big_endian(value, 8)

\* function_selector over the bytes of the name
function_selector(name_bytes) == u64_be(Len(name_bytes)) \o name_bytes

\* Option<&[u8]>
None == [some |-> FALSE, data |-> <<>>]
Some(data) == [some |-> TRUE, data |-> data]

\* an encode_option_call_data that writes Some as u64(1) ++ data, as
\* encode_option_some does
encode_option_call_data_no_length(data) ==
    IF ~data.some THEN u64_be(0)
    ELSE u64_be(1) \o data.data

encode_option_call_data(data) ==
    IF ~data.some THEN u64_be(0)
    ELSE u64_be(1) \o u64_be(Len(data.data)) \o data.data

CallArg(contract_id, selector, amount, asset_id, gas, call_data) ==
    [contract_id |-> contract_id, function_selector |-> selector,
     amount |-> amount, asset_id |-> asset_id, gas |-> gas,
     call_data |-> call_data]

RECURSIVE extend_calls(_, _)
extend_calls(result, calls) ==
    IF calls = <<>> THEN result
    ELSE extend_calls(result
                      \o Head(calls).contract_id
                      \o u64_be(Len(Head(calls).function_selector))
                      \o Head(calls).function_selector
                      \o u64_be(Head(calls).amount)
                      \o Head(calls).asset_id
                      \o u64_be(Head(calls).gas)
                      \o encode_option_call_data(Head(calls).call_data),
                      Tail(calls))

build_actions_signing_bytes(nonce, calls) ==
    extend_calls(u64_be(nonce) \o u64_be(Len(calls)), calls)

\* [byte; 32]
Bytes32(byte) == [i \in 1..32 |-> byte]

\* "create_order" and "cancel_order" in ASCII
CREATE_ORDER == <<99, 114, 101, 97, 116, 101, 95, 111, 114, 100, 101, 114>>
CANCEL_ORDER == <<99, 97, 110, 99, 101, 108, 95, 111, 114, 100, 101, 114>>

\* the call of test_build_actions_signing_bytes_single_call
TestCall ==
    CallArg(Bytes32(170), function_selector(CREATE_ORDER), 1000, Bytes32(187),
            GAS_MAX, Some(<<1, 2, 3, 4, 5, 6, 7, 8>>))

\* the calls handed to build_actions_signing_bytes: with call data of 8 and
\* of 32 bytes, with empty call data and without call data
SigningCalls ==
    { TestCall,
      CallArg(Bytes32(193), function_selector(CANCEL_ORDER), 0, Bytes32(0),
              GAS_MAX, Some(Bytes32(17))),
      CallArg(Bytes32(193), function_selector(CREATE_ORDER), 7, Bytes32(187),
              GAS_MAX, Some(<<>>)),
      CallArg(Bytes32(170), <<>>, 0, Bytes32(0), 0, None),
      CallArg(Bytes32(0), <<1>>, 1, Bytes32(1), 1, Some(<<0>>)) }

\* at most MaxCalls calls in a batch
MaxCalls == 2

RECURSIVE SeqsUpTo(_, _)
SeqsUpTo(S, n) ==
    IF n = 0 THEN {<<>>}
    ELSE SeqsUpTo(S, n - 1)
         \cup { Append(q, x) : q \in { r \in SeqsUpTo(S, n - 1) : Len(r) = n - 1 },
                               x \in S }

SigningNonces == {0, 1, 42}

InitEncoding ==
    /\ now = 1
    /\ accountNonce = 0
    /\ markets_cache = NoCache
    /\ markets_cache_at = NoInstant
    /\ metadata_policy = [kind |-> "OptimisticTtl", ttl |-> DefaultTtl]
    /\ session = NoSession
    /\ last = NoLast
    /\ \E nonce \in SigningNonces, calls \in SeqsUpTo(SigningCalls, MaxCalls) :
          calc = [fn |-> "", nonce |-> nonce, calls |-> calls, out |-> <<>>]

BuildActionsSigningBytesStep ==
    /\ calc' = [calc EXCEPT
                  !.fn = "build_actions_signing_bytes",
                  !.out = build_actions_signing_bytes(calc.nonce, calc.calls)]
    /\ UNCHANGED <<now, accountNonce, markets_cache, markets_cache_at,
                   metadata_policy, session, last>>

NextEncoding == BuildActionsSigningBytesStep

SpecEncoding == InitEncoding /\ [][NextEncoding]_vars

(***************************************************************************)
(* crypto.rs: fuel_compact_sign.  The 32-byte numbers r, s and the group   *)
(* order are scaled down to SigLen bytes of 8 bits; the order keeps its    *)
(* shape: an odd number just below the top of the range whose half has a   *)
(* clear top bit.  The raw signature (r, s, recovery id) is what any       *)
(* conforming recoverable signer may return, with s anywhere in            *)
(* 1..order-1; the sha256 / keccak digests and the curve arithmetic are    *)
(* not modelled.                                                           *)
(***************************************************************************)
SigLen == 2

SECP256K1_ORDER_HALF == <<127, 32>>

SECP256K1_ORDER == <<254, 65>>

\* a gt_be that returns true if a < b
gt_be_inverted(a, b) ==
    LET differ == { i \in 1..SigLen : a[i] # b[i] } IN
    IF differ = {} THEN FALSE
    ELSE LET i == CHOOSE k \in differ : \A j \in differ : k <= j
         IN  a[i] < b[i]

\* the first byte that differs decides
gt_be(a, b) ==
    LET differ == { i \in 1..SigLen : a[i] # b[i] } IN
    IF differ = {} THEN FALSE
    ELSE LET i == CHOOSE k \in differ : \A j \in differ : k <= j
         IN  a[i] > b[i]

\* negate_s from byte i down to the first, with the borrow of the bytes
\* after it.  `SECP256K1_ORDER[i] as u16 - s[i] as u16 - borrow` is a u16
\* subtraction: below zero it wraps to diff + 65536 without overflow checks
\* and panics with them.
RECURSIVE negate_from(_, _, _, _, _)
negate_from(s, i, borrow, result, overflow_checks) ==
    IF i = 0 THEN [ok |-> TRUE, v |-> result, err |-> ""]
    ELSE LET exact == SECP256K1_ORDER[i] - s[i] - borrow
             diff == exact % 65536
         IN  IF exact < 0 /\ overflow_checks
             THEN [ok |-> FALSE, v |-> <<>>, err |-> "panic"]
             ELSE negate_from(s, i - 1, IF diff > 255 THEN 1 ELSE 0,
                              [result EXCEPT ![i] = diff % 256],
                              overflow_checks)

negate_s(s, overflow_checks) ==
    negate_from(s, SigLen, 0, [i \in 1..SigLen |-> 0], overflow_checks)

\* s[0] = (recovery_id << 7) | (s[0] & 0x7F), in u8
embed_recovery_id(s, recovery_id) ==
    [s EXCEPT ![1] = ((recovery_id * 128) % 256) + (@ % 128)]

\* fuel_compact_sign over the raw signature sign_ecdsa_recoverable returned
fuel_compact_sign(key_valid, raw, overflow_checks) ==
    IF ~key_valid THEN [ok |-> FALSE, v |-> <<>>, err |-> "CryptoError"]
    ELSE IF gt_be(raw.s, SECP256K1_ORDER_HALF)
    THEN With(negate_s(raw.s, overflow_checks), LAMBDA negated :
            IF ~negated.ok THEN negated
            ELSE [ok |-> TRUE,
                  v |-> raw.r \o embed_recovery_id(negated.v,
                                    (raw.recovery_id + 1) % 2),
                  err |-> ""])
    ELSE [ok |-> TRUE,
          v |-> raw.r \o embed_recovery_id(raw.s, raw.recovery_id),
          err |-> ""]

\* the number a big-endian byte string stands for
RECURSIVE be_number(_)
be_number(bytes) ==
    IF bytes = <<>> THEN 0
    ELSE be_number(SubSeq(bytes, 1, Len(bytes) - 1)) * 256
         + bytes[Len(bytes)]

\* the raw signatures of a valid key: every s in 1..order-1 with either
\* recovery id
RawSignatures ==
    { [r |-> big_endian(171, SigLen), s |-> big_endian(n, SigLen),
       recovery_id |-> v]
      : n \in 1..(be_number(SECP256K1_ORDER) - 1), v \in {0, 1} }

InitCrypto ==
    /\ now = 1
    /\ accountNonce = 0
    /\ markets_cache = NoCache
    /\ markets_cache_at = NoInstant
    /\ metadata_policy = [kind |-> "OptimisticTtl", ttl |-> DefaultTtl]
    /\ session = NoSession
    /\ last = NoLast
    /\ \E raw \in RawSignatures, key_valid \in BOOLEAN :
          /\ ~key_valid => be_number(raw.s) = 1 /\ raw.recovery_id = 0
          /\ calc = [fn |-> "", key_valid |-> key_valid, raw |-> raw,
                     overflow_checks |-> FALSE,
                     out |-> [ok |-> FALSE, v |-> <<>>, err |-> ""]]

FuelCompactSignStep ==
    /\ calc.fn = ""
    /\ \E overflow_checks \in BOOLEAN :
          calc' = [calc EXCEPT
                     !.fn = "fuel_compact_sign",
                     !.overflow_checks = overflow_checks,
                     !.out = fuel_compact_sign(calc.key_valid, calc.raw,
                                               overflow_checks)]
    /\ UNCHANGED <<now, accountNonce, markets_cache, markets_cache_at,
                   metadata_policy, session, last>>

NextCrypto == FuelCompactSignStep

SpecCrypto == InitCrypto /\ [][NextCrypto]_vars

(***************************************************************************)
(* onchain_revert.rs: the revert decoder.  A text is a sequence of tokens: *)
(* a word, a "Revert(...)" occurrence, or a decoded error as the decoder   *)
(* prints it.  A u64 is [hi, lo]: its top 48 bits in hex and its low 16    *)
(* bits as a number.                                                       *)
(***************************************************************************)
ABI_ERROR_ENUMS ==
    << <<"contract_schema::blacklist::BlacklistError",
         <<"TraderAlreadyBlacklisted", "TraderNotBlacklisted">> >>,
       <<"contract_schema::order_book::FeeError", <<"NoFeesAvailable">> >>,
       <<"contract_schema::order_book::OrderBookInitializationError",
         <<"InvalidAsset", "InvalidDecimals", "InvalidPriceWindow",
           "InvalidPricePrecision", "OwnerNotSet", "InvalidMinOrder">> >>,
       <<"contract_schema::order_book::OrderCancelError",
         <<"NotOrderOwner", "TraderNotBlacklisted", "NoBlacklist">> >>,
       <<"contract_schema::order_book::OrderCreationError",
         <<"InvalidOrderArgs", "InvalidInputAmount", "InvalidAsset",
           "PriceExceedsRange", "PricePrecision", "InvalidHeapPrices",
           "FractionalPrice", "OrderNotFilled", "OrderPartiallyFilled",
           "TraderNotWhiteListed", "TraderBlackListed", "InvalidMarketOrder",
           "InvalidMarketOrderArgs">> >>,
       <<"contract_schema::register::OrderBookRegistryError",
         <<"MarketAlreadyHasOrderBook", "InvalidPair">> >>,
       <<"contract_schema::register::TradeAccountRegistryError",
         <<"OwnerAlreadyHasTradeAccount", "TradeAccountNotRegistered",
           "TradeAccountAlreadyHasReferer">> >>,
       <<"contract_schema::trade_account::CallerError", <<"InvalidCaller">> >>,
       <<"contract_schema::trade_account::NonceError", <<"InvalidNonce">> >>,
       <<"contract_schema::trade_account::SessionError",
         <<"SessionInThePast", "NoApprovedContractIdsProvided">> >>,
       <<"contract_schema::trade_account::SignerError",
         <<"InvalidSigner", "ProxyOwnerIsContract">> >>,
       <<"contract_schema::trade_account::WithdrawError",
         <<"AmountIsZero", "NotEnoughBalance">> >>,
       <<"contract_schema::whitelist::WhitelistError",
         <<"TraderAlreadyWhitelisted", "TraderNotWhitelisted">> >>,
       <<"ownership::errors::InitializationError", <<"CannotReinitialized">> >>,
       <<"pausable::errors::PauseError", <<"Paused", "NotPaused">> >>,
       <<"src5::AccessError", <<"NotOwner">> >>,
       <<"std::crypto::signature_error::SignatureError",
         <<"UnrecoverablePublicKey", "InvalidPublicKey", "InvalidSignature",
           "InvalidOperation">> >>,
       <<"upgradability::errors::SetProxyOwnerError",
         <<"CannotUninitialize">> >> >>

\* Option<String> of a decoded error
NoText == [some |-> FALSE, v |-> [form |-> ""]]
SomeText(v) == [some |-> TRUE, v |-> v]

\* "{enum_name}::{variant} (ordinal={ordinal}, raw=0x{raw:016x})"
Named(enum_name, variant, raw) ==
    [form |-> "named", enum_name |-> enum_name, variant |-> variant,
     ordinal |-> raw.lo, raw |-> raw]

\* "unknown ABI error ordinal={ordinal} (raw=0x{raw:016x})"
UnknownOrdinal(raw) == [form |-> "unknown", ordinal |-> raw.lo, raw |-> raw]

\* "ambiguous ABI error ordinal={} (raw=0x{:016x}); candidates=[{}]"
AmbiguousOrdinal(raw, candidates) ==
    [form |-> "ambiguous", ordinal |-> raw.lo, raw |-> raw,
     candidates |-> candidates]

\* the tokens of a text
Word(w) == [kind |-> "word", w |-> w]
RevertToken(digits, closed, raw) ==
    [kind |-> "revert", digits |-> digits, closed |-> closed, raw |-> raw]
Decoded(mapped) == [kind |-> "decoded", mapped |-> mapped]
Bracketed(mapped) == [kind |-> "bracketed", mapped |-> mapped]

\* the keywords infer_enum_from_context looks for that occur inside the
\* names of the catalog
NameKeywords(name) ==
    CASE name \in {"contract_schema::trade_account::SessionError",
                   "SessionInThePast"} -> {"Session"}
      [] name \in {"contract_schema::trade_account::NonceError",
                   "InvalidNonce"} -> {"Nonce"}
      [] name = "contract_schema::trade_account::WithdrawError" ->
            {"Withdraw"}
      [] OTHER -> {}

MappedKeywords(mapped) ==
    CASE mapped.form = "named" ->
            NameKeywords(mapped.enum_name) \cup NameKeywords(mapped.variant)
      [] mapped.form = "ambiguous" ->
            UNION { NameKeywords(mapped.candidates[i][1])
                    \cup NameKeywords(mapped.candidates[i][2])
                    : i \in DOMAIN mapped.candidates }
      [] OTHER -> {}

\* str::contains over a text, for a keyword
Contains(text, keyword) ==
    \E i \in DOMAIN text :
        CASE text[i].kind = "word" -> text[i].w = keyword
          [] text[i].kind \in {"decoded", "bracketed"} ->
                keyword \in MappedKeywords(text[i].mapped)
          [] OTHER -> FALSE

\* Option<&'static str>: "" is None
infer_enum_from_context(context) ==
    IF Contains(context, "CreateOrder")
    THEN "contract_schema::order_book::OrderCreationError"
    ELSE IF Contains(context, "CancelOrder")
    THEN "contract_schema::order_book::OrderCancelError"
    ELSE IF Contains(context, "SettleBalance")
            \/ Contains(context, "settle_balance")
    THEN "contract_schema::order_book::OrderCreationError"
    ELSE IF Contains(context, "withdraw") \/ Contains(context, "Withdraw")
    THEN "contract_schema::trade_account::WithdrawError"
    ELSE IF Contains(context, "register_referer")
    THEN "contract_schema::register::TradeAccountRegistryError"
    ELSE IF Contains(context, "session") \/ Contains(context, "Session")
    THEN "contract_schema::trade_account::SessionError"
    ELSE IF Contains(context, "nonce") \/ Contains(context, "Nonce")
    THEN "contract_schema::trade_account::NonceError"
    ELSE ""

\* Option<&'static str>: "" is None
lookup_variant(enum_name, ordinal_1_based) ==
    LET found == { i \in DOMAIN ABI_ERROR_ENUMS :
                     ABI_ERROR_ENUMS[i][1] = enum_name } IN
    IF found = {} THEN ""
    ELSE LET variants == ABI_ERROR_ENUMS[CHOOSE i \in found : TRUE][2] IN
         IF ordinal_1_based = 0 \/ ordinal_1_based > Len(variants) THEN ""
         ELSE variants[ordinal_1_based]

\* the codes of the occurrences "Revert(<digits>)" whose digits parse as u64
RECURSIVE extract_revert_codes(_)
extract_revert_codes(text) ==
    IF text = <<>> THEN <<>>
    ELSE IF Head(text).kind = "revert" /\ Head(text).digits = "number"
            /\ Head(text).closed
    THEN <<Head(text).raw>> \o extract_revert_codes(Tail(text))
    ELSE extract_revert_codes(Tail(text))

\* the catalog's candidates from group i on: every group with a variant at
\* the ordinal
RECURSIVE candidates_from(_, _)
candidates_from(i, ordinal) ==
    IF i > Len(ABI_ERROR_ENUMS) THEN <<>>
    ELSE IF ordinal <= Len(ABI_ERROR_ENUMS[i][2])
    THEN << <<ABI_ERROR_ENUMS[i][1], ABI_ERROR_ENUMS[i][2][ordinal]>> >>
         \o candidates_from(i + 1, ordinal)
    ELSE candidates_from(i + 1, ordinal)

\* the signal-error convention: 0xffffffffffff0000 | ordinal_1_based
SIGNAL_HIGH == "ffffffffffff"

\* a decode_revert_code that takes the first group with a variant at the
\* ordinal when the context names none
decode_revert_code_guessing(raw, context) ==
    IF raw.hi # SIGNAL_HIGH THEN NoText
    ELSE IF raw.lo = 0 THEN NoText
    ELSE IF lookup_variant(infer_enum_from_context(context), raw.lo) # ""
    THEN SomeText(Named(infer_enum_from_context(context),
                        lookup_variant(infer_enum_from_context(context),
                                       raw.lo),
                        raw))
    ELSE With(candidates_from(1, raw.lo), LAMBDA candidates :
            IF candidates = <<>> THEN SomeText(UnknownOrdinal(raw))
            ELSE SomeText(Named(candidates[1][1], candidates[1][2], raw)))

decode_revert_code(raw, context) ==
    IF raw.hi # SIGNAL_HIGH THEN NoText
    ELSE IF raw.lo = 0 THEN NoText
    ELSE IF lookup_variant(infer_enum_from_context(context), raw.lo) # ""
    THEN SomeText(Named(infer_enum_from_context(context),
                        lookup_variant(infer_enum_from_context(context),
                                       raw.lo),
                        raw))
    ELSE With(candidates_from(1, raw.lo), LAMBDA candidates :
            IF candidates = <<>> THEN SomeText(UnknownOrdinal(raw))
            ELSE IF Len(candidates) = 1
            THEN SomeText(Named(candidates[1][1], candidates[1][2], raw))
            ELSE SomeText(AmbiguousOrdinal(raw, candidates)))

\* format!("{message}\n{reason}\n{}", receipts...)
revert_context(message, reason, receipts) ==
    message \o <<Word("\n")>> \o reason \o <<Word("\n")>>
    \o (IF receipts.some THEN receipts.data ELSE <<>>)

\* the first code that decodes
RECURSIVE first_decoded(_, _)
first_decoded(codes, context) ==
    IF codes = <<>> THEN NoText
    ELSE IF decode_revert_code(Head(codes), context).some
    THEN decode_revert_code(Head(codes), context)
    ELSE first_decoded(Tail(codes), context)

\* an augment_revert_reason that returns the decoded error in place of the
\* reason
augment_revert_reason_replacing(message, reason, receipts) ==
    With(revert_context(message, reason, receipts), LAMBDA context :
    With(first_decoded(extract_revert_codes(context), context),
         LAMBDA decoded :
            IF ~decoded.some THEN reason
            ELSE <<Decoded(decoded.v)>>))

augment_revert_reason(message, reason, receipts) ==
    With(revert_context(message, reason, receipts), LAMBDA context :
    With(first_decoded(extract_revert_codes(context), context),
         LAMBDA decoded :
            IF ~decoded.some THEN reason
            ELSE IF reason = <<>> THEN <<Decoded(decoded.v)>>
            ELSE IF \E i \in DOMAIN reason :
                        /\ reason[i].kind \in {"decoded", "bracketed"}
                        /\ reason[i].mapped = decoded.v
            THEN reason
            ELSE reason \o <<Bracketed(decoded.v)>>))

\* ordinals 0..MaxOrdinal are enumerated
MaxOrdinal == 14

Keywords ==
    {"CreateOrder", "CancelOrder", "SettleBalance", "settle_balance",
     "withdraw", "Withdraw", "register_referer", "session", "Session",
     "nonce", "Nonce"}

Code(hi, lo) == [hi |-> hi, lo |-> lo]

\* "Revert(<n>)" for every sampled n, with and without the signal pattern;
\* "Revert(<n>" without its parenthesis, "Revert()" and digits that
\* overflow a u64
RevertTokens ==
    { RevertToken("number", TRUE, Code(hi, lo))
      : hi \in {SIGNAL_HIGH, "000000000000"}, lo \in 0..MaxOrdinal }
    \cup { RevertToken("number", FALSE, Code(SIGNAL_HIGH, 9)),
           RevertToken("none", TRUE, Code(SIGNAL_HIGH, 9)),
           RevertToken("overflow", TRUE, Code(SIGNAL_HIGH, 9)) }

\* a word, followed or not by one occurrence of "Revert("; both order
\* keywords before a code; a code that does not decode before one that does
Messages ==
    { <<Word(w)>> : w \in Keywords \cup {"plain"} }
    \cup { <<Word(w), t>> : w \in Keywords \cup {"plain"}, t \in RevertTokens }
    \cup { <<Word("CancelOrder"), Word("CreateOrder"),
             RevertToken("number", TRUE, Code(SIGNAL_HIGH, 9))>>,
           <<Word("plain"),
             RevertToken("number", TRUE, Code("000000000000", 5)),
             RevertToken("number", TRUE, Code(SIGNAL_HIGH, 1))>> }

\* no reason, a plain one, one with a keyword, one with a code, and one
\* that already carries a decoded error
Reasons ==
    { <<>>,
      <<Word("transaction reverted")>>,
      <<Word("CancelOrder")>>,
      <<Word("some reason"),
        RevertToken("number", TRUE, Code(SIGNAL_HIGH, 2))>>,
      <<Word("failed"),
        Bracketed(Named("contract_schema::order_book::OrderCreationError",
                        "OrderPartiallyFilled", Code(SIGNAL_HIGH, 9)))>> }

Receipts ==
    { None,
      Some(<<Word("Withdraw"),
             RevertToken("number", TRUE, Code(SIGNAL_HIGH, 1))>>) }

InitRevert ==
    /\ now = 1
    /\ accountNonce = 0
    /\ markets_cache = NoCache
    /\ markets_cache_at = NoInstant
    /\ metadata_policy = [kind |-> "OptimisticTtl", ttl |-> DefaultTtl]
    /\ session = NoSession
    /\ last = NoLast
    /\ \E message \in Messages, reason \in Reasons, receipts \in Receipts :
          calc = [fn |-> "", message |-> message, reason |-> reason,
                  receipts |-> receipts, raw |-> Code("", 0),
                  decoded |-> NoText, out |-> <<>>]

\* the texts drawn at the start, and no result
RevertInputs ==
    [calc EXCEPT !.fn = "", !.raw = Code("", 0), !.decoded = NoText,
                 !.out = <<>>]

AugmentRevertReasonStep ==
    /\ calc' = [RevertInputs EXCEPT
                  !.fn = "augment_revert_reason",
                  !.out = augment_revert_reason(calc.message, calc.reason,
                                                calc.receipts)]
    /\ UNCHANGED <<now, accountNonce, markets_cache, markets_cache_at,
                   metadata_policy, session, last>>

\* decode_revert_code, as augment_revert_reason calls it: on a code found
\* in the context
DecodeRevertCodeStep ==
    With(revert_context(calc.message, calc.reason, calc.receipts),
         LAMBDA context :
            \E i \in DOMAIN extract_revert_codes(context) :
                /\ calc' = [RevertInputs EXCEPT
                              !.fn = "decode_revert_code",
                              !.raw = extract_revert_codes(context)[i],
                              !.decoded = decode_revert_code(
                                  extract_revert_codes(context)[i], context)]
                /\ UNCHANGED <<now, accountNonce, markets_cache,
                               markets_cache_at, metadata_policy, session,
                               last>>)

NextRevert ==
    \/ AugmentRevertReasonStep
    \/ DecodeRevertCodeStep

SpecRevert == InitRevert /\ [][NextRevert]_vars

(***************************************************************************)
(* api.rs: submit_actions over every answer of the exchange.               *)
(***************************************************************************)
\* what the `orders` field of a body can be
OrdersFields == {"absent", "valid", "invalid"}

\* every answer: none at all, a body that is no JSON under either status,
\* and a JSON object with any of the fields under either status
AllAnswers ==
    { Answer(FALSE, FALSE, FALSE, FALSE, FALSE, FALSE, "absent") }
    \cup { Answer(TRUE, status_ok, FALSE, FALSE, FALSE, FALSE, "absent")
           : status_ok \in BOOLEAN }
    \cup { Answer(TRUE, status_ok, TRUE, tx_id, code, message, orders)
           : status_ok \in BOOLEAN, tx_id \in BOOLEAN, code \in BOOLEAN,
             message \in BOOLEAN, orders \in OrdersFields }

\* the texts of a body: message, reason ("" when absent) and receipts
Body(message, reason, receipts) ==
    [message |-> message, reason |-> reason, receipts |-> receipts]

NoBody == Body(<<>>, <<>>, None)

\* bodies with a message: a revert of an order with its code and a reason,
\* the same without a reason, the code in the receipts, and one without a
\* code
RevertBodies ==
    { Body(<<Word("CreateOrder"),
             RevertToken("number", TRUE, Code(SIGNAL_HIGH, 9))>>,
           <<Word("transaction reverted")>>, None),
      Body(<<Word("CreateOrder"),
             RevertToken("number", TRUE, Code(SIGNAL_HIGH, 9))>>,
           <<>>, None),
      Body(<<Word("plain")>>, <<Word("transaction reverted")>>,
           Some(<<Word("Withdraw"),
                  RevertToken("number", TRUE, Code(SIGNAL_HIGH, 1))>>)),
      Body(<<Word("plain")>>, <<Word("some reason")>>, None) }

\* O2Error::OnChainRevert { message, reason, receipts }
OnChainRevert(message, reason, receipts) ==
    [message |-> message, reason |-> reason, receipts |-> receipts]

\* the OnChainRevert error parse_response and submit_actions build from the
\* fields of the body
onchain_revert_error(body) ==
    OnChainRevert(body.message, body.reason, body.receipts)

InitApi ==
    /\ now = 1
    /\ accountNonce = 0
    /\ markets_cache = NoCache
    /\ markets_cache_at = NoInstant
    /\ metadata_policy = [kind |-> "OptimisticTtl", ttl |-> DefaultTtl]
    /\ session = NoSession
    /\ last = NoLast
    /\ \E answer \in AllAnswers :
       \E body \in IF answer.message THEN RevertBodies ELSE {NoBody} :
          calc = [fn |-> "", answer |-> answer, body |-> body,
                  out |-> SubmitResult(FALSE, "", "", FALSE, FALSE),
                  error |-> OnChainRevert(<<>>, <<>>, None)]

SubmitActionsStep ==
    /\ calc' = [calc EXCEPT
                  !.fn = "submit_actions",
                  !.out = submit_actions(calc.answer),
                  !.error = IF submit_actions(calc.answer).err
                                  = "OnChainRevert"
                            THEN onchain_revert_error(calc.body)
                            ELSE @]
    /\ UNCHANGED <<now, accountNonce, markets_cache, markets_cache_at,
                   metadata_policy, session, last>>

NextApi == SubmitActionsStep

SpecApi == InitApi /\ [][NextApi]_vars

(***************************************************************************)
(* Properties of the market arithmetic, checked under SpecCalc.            *)
(***************************************************************************)
BaseFactor == Pow(10, calc.market.base.decimals)

Product == calc.price * calc.quantity

\* C8: for all 64-bit price and quantity, adjust_quantity never returns
\* more than quantity, its result q satisfies
\* (price * q) mod 10^base_decimals = 0, and it fails only when price is zero.
C8_AdjustQuantityExactMultiple ==
    calc.fn = "adjust_quantity" =>
        /\ calc.out.ok =>
              /\ calc.out.v <= calc.quantity
              /\ (calc.price * calc.out.v) % BaseFactor = 0
        /\ ~calc.out.ok => calc.price = 0

\* C9 as amended: validate_order fails exactly when 10^base_decimals does
\* not fit 128 bits, or floor(price*quantity / 10^base_decimals) < min_order,
\* or (price*quantity) mod 10^base_decimals # 0; the divisor is taken from
\* the base asset's decimals.
C9_ValidateOrderFailsExactly ==
    calc.fn = "validate_order" =>
        (~calc.out.ok <=>
            \/ BaseFactor > U128_MAX
            \/ Product \div BaseFactor < calc.market.min_order
            \/ Product % BaseFactor # 0)

\* validate_order refused an empty order of a market without a minimum,
\* because 10^base_decimals does not fit 128 bits
C9_Witness ==
    /\ calc.fn = "validate_order"
    /\ ~calc.out.ok
    /\ BaseFactor > U128_MAX
    /\ calc.market.min_order = 0
    /\ Product = 0

\* C9 as stated: validate_order fails exactly when
\* floor(price*quantity / 10^base_decimals) < min_order or
\* (price*quantity) mod 10^base_decimals # 0.
C9_AsStated ==
    calc.fn = "validate_order" =>
        (~calc.out.ok <=>
            \/ Product \div BaseFactor < calc.market.min_order
            \/ Product % BaseFactor # 0)

\* the value before truncation that scale_price / scale_quantity computes
Scaled(asset, m) == (m * Pow(10, asset.decimals)) \div Pow(10, calc.e)

\* C10: every product of two 64-bit scaled amounts is computed in a
\* 128-bit intermediate and every narrowing back to 64 bits - in
\* scale_price / scale_quantity, in adjust_quantity and in the Buy amount of
\* create_order_to_call - is checked: a function that returns a value
\* returns the exact one, which fits 64 bits, and fails otherwise.
C10_NarrowingChecked ==
    /\ calc.fn = "scale_price" /\ calc.out.ok =>
          /\ Scaled(calc.market.quote, calc.price) <= U64_MAX
          /\ calc.out.v <= Scaled(calc.market.quote, calc.price)
    /\ calc.fn = "scale_quantity" /\ calc.out.ok =>
          /\ Scaled(calc.market.base, calc.quantity) <= U64_MAX
          /\ calc.out.v <= Scaled(calc.market.base, calc.quantity)
    /\ calc.fn = "adjust_quantity" /\ calc.out.ok =>
          calc.out.v = IF Product % BaseFactor = 0 THEN calc.quantity
                       ELSE (Product - (Product % BaseFactor)) \div calc.price
    /\ calc.fn = "create_order_to_call" /\ calc.side = "Buy" =>
          calc.call.amount = Product \div BaseFactor

\* the result keeps max_precision digits and does not exceed the value
Truncated(asset, m) ==
    /\ calc.out.v % Pow(10, asset.decimals - asset.max_precision) = 0
    /\ calc.out.v * Pow(10, calc.e) <= m * Pow(10, asset.decimals)

\* C11: scale_price and scale_quantity truncate and never round: for every
\* non-negative decimal value the result is a multiple of
\* 10^(decimals - max_precision) and is never larger than
\* value * 10^decimals.
C11_ScaleTruncates ==
    /\ calc.fn = "scale_price" /\ calc.out.ok =>
          Truncated(calc.market.quote, calc.price)
    /\ calc.fn = "scale_quantity" /\ calc.out.ok =>
          Truncated(calc.market.base, calc.quantity)

\* scale_price cut 0.6 down to 0 in a quote asset of 2 decimals that keeps
\* none of them, where rounding would have given 1.00
C11_Witness ==
    /\ calc.fn = "scale_price"
    /\ calc.market.quote.decimals = 2
    /\ calc.market.quote.max_precision = 0
    /\ calc.price = 6
    /\ calc.e = 1
    /\ calc.out.ok
    /\ calc.out.v = 0

\* |d - formatted| is at most one unit at max_precision
WithinOneUnit(asset, m) ==
    LET a == m * Pow(10, calc.formatted.e)
        b == calc.formatted.m * Pow(10, calc.e)
        gap == IF a >= b THEN a - b ELSE b - a
    IN  gap * Pow(10, asset.max_precision)
            <= Pow(10, calc.e + calc.formatted.e)

\* C12: for any non-negative decimal d that scales without error,
\* format(scale(d)) differs from d by at most one unit at max_precision, and
\* scale(format(scale(d))) = scale(d), for both the price pair
\* (scale_price / format_price) and the quantity pair
\* (scale_quantity / format_quantity).
C12_RoundTrip ==
    /\ calc.fn = "round_trip_price" =>
          /\ WithinOneUnit(calc.market.quote, calc.price)
          /\ calc.again = calc.out
    /\ calc.fn = "round_trip_quantity" =>
          /\ WithinOneUnit(calc.market.base, calc.quantity)
          /\ calc.again = calc.out

\* 1.2 became 100 in a quote asset of 2 decimals that keeps none of them,
\* was formatted as 1 and scaled to 100 again
C12_Witness ==
    /\ calc.fn = "round_trip_price"
    /\ calc.market.quote.decimals = 2
    /\ calc.market.quote.max_precision = 0
    /\ calc.price = 12
    /\ calc.e = 1
    /\ calc.out = Ok(100)
    /\ calc.formatted = Dec(1, 0)
    /\ calc.again = Ok(100)

\* the price and the quantity an order carries on chain
OrderPrice == scale_price(calc.market, calc.action.price).v

OrderQuantity ==
    adjust_quantity(calc.market, OrderPrice,
                    scale_quantity(calc.market, calc.action.quantity).v).v

\* C13: action_to_call maps each Action to its Call as the table states:
\* CreateOrder targets the market contract with call_data = order_args, a
\* Buy paying the quote asset with amount
\* floor(price*quantity/10^base_decimals) and a Sell paying the base asset
\* with amount = quantity; CancelOrder and SettleBalance target the market
\* contract with amount 0; RegisterReferer is the only action that targets
\* the accounts-registry contract; every Call carries gas = u64::MAX.
C13_ActionToCallTable ==
    calc.fn = "action_to_call" /\ calc.out.ok =>
        /\ calc.call.gas = U64_MAX
        /\ calc.action.type = "CreateOrder" =>
              /\ calc.call.contract_id = calc.market.contract_id
              /\ calc.call.call_data
                    = encode_order_args(OrderPrice, OrderQuantity, <<1>>)
              /\ calc.action.side = "Buy" =>
                    /\ calc.call.asset_id = calc.market.quote.asset
                    /\ calc.call.amount
                          = (OrderPrice * OrderQuantity) \div BaseFactor
              /\ calc.action.side = "Sell" =>
                    /\ calc.call.asset_id = calc.market.base.asset
                    /\ calc.call.amount = OrderQuantity
        /\ calc.action.type \in {"CancelOrder", "SettleBalance"} =>
              /\ calc.call.contract_id = calc.market.contract_id
              /\ calc.call.amount = 0
        /\ calc.action.type = "RegisterReferer" <=>
              calc.call.contract_id = calc.registry

(***************************************************************************)
(* Properties of the byte layouts, checked under SpecEncoding.  The        *)
(* documented layout is read back field by field.                          *)
(***************************************************************************)
\* the bytes from..from+len-1, or nothing when they run past the end
Slice(bytes, from, len) ==
    IF from + len - 1 <= Len(bytes) THEN SubSeq(bytes, from, from + len - 1)
    ELSE <<>>

\* the number 8 big-endian bytes at `from` stand for; -1 when there are not
\* 8 bytes or the number does not fit 24 bits
ReadU64(bytes, from) ==
    LET b == Slice(bytes, from, 8) IN
    IF Len(b) # 8 \/ \E i \in 1..5 : b[i] # 0 THEN -1
    ELSE b[6] * 65536 + b[7] * 256 + b[8]

Unreadable == [ok |-> FALSE, calls |-> <<>>]

\* reads n calls laid out as contract_id(32) ++ u64_be(len(selector)) ++
\* selector ++ u64_be(amount) ++ asset_id(32) ++ u64_be(gas) ++
\* option(call_data), the option being u64_be(0) or
\* u64_be(1) ++ u64_be(len) ++ bytes
RECURSIVE ReadCalls(_, _, _, _)
ReadCalls(bytes, from, n, calls) ==
    IF n = 0
    THEN IF from = Len(bytes) + 1 THEN [ok |-> TRUE, calls |-> calls]
         ELSE Unreadable
    ELSE
    LET sel_len == ReadU64(bytes, from + 32)
        after_sel == from + 40 + sel_len
        tag == ReadU64(bytes, after_sel + 48)
        data_len == IF tag = 1 THEN ReadU64(bytes, after_sel + 56) ELSE 0
        data_at == after_sel + 64
    IN  IF sel_len < 0 \/ tag \notin {0, 1} \/ data_len < 0 THEN Unreadable
        ELSE IF Len(Slice(bytes, from, 32)) # 32
                \/ Len(Slice(bytes, from + 40, sel_len)) # sel_len
                \/ ReadU64(bytes, after_sel) < 0
                \/ ReadU64(bytes, after_sel + 40) < 0
                \/ (tag = 1 /\ Len(Slice(bytes, data_at, data_len)) # data_len)
        THEN Unreadable
        ELSE ReadCalls(bytes,
                       IF tag = 1 THEN data_at + data_len ELSE after_sel + 56,
                       n - 1,
                       Append(calls,
                              CallArg(Slice(bytes, from, 32),
                                      Slice(bytes, from + 40, sel_len),
                                      ReadU64(bytes, after_sel),
                                      Slice(bytes, after_sel + 8, 32),
                                      ReadU64(bytes, after_sel + 40),
                                      IF tag = 1
                                      THEN Some(Slice(bytes, data_at, data_len))
                                      ELSE None)))

\* the output reads back, in the documented field order, as the nonce, the
\* number of calls and the calls
ReadsBack ==
    /\ ReadU64(calc.out, 1) = calc.nonce
    /\ ReadU64(calc.out, 9) = Len(calc.calls)
    /\ ReadCalls(calc.out, 17, Len(calc.calls), <<>>)
          = [ok |-> TRUE, calls |-> calc.calls]

\* nonce = 42 and the one call with amount = 1000, gas = MAX and 8 bytes of
\* call data
SingleCallCase ==
    /\ calc.fn = "build_actions_signing_bytes"
    /\ calc.nonce = 42
    /\ calc.calls = <<TestCall>>

\* C14 as amended: build_actions_signing_bytes(nonce, calls) equals
\* u64_be(nonce) ++ u64_be(number of calls) ++, for each call in order,
\* contract_id(32) ++ u64_be(len(selector)) ++ selector ++ u64_be(amount) ++
\* asset_id(32) ++ u64_be(gas) ++ option(call_data); for nonce = 42 and one
\* call with the selector of create_order, amount = 1000, gas = MAX and 8
\* bytes of call data the output is 148 bytes long in that field order.
C14_SigningBytesLayout ==
    calc.fn = "build_actions_signing_bytes" =>
        /\ ReadsBack
        /\ SingleCallCase => Len(calc.out) = 148

\* the bytes of the single-call case were built
C14_Witness ==
    /\ SingleCallCase
    /\ Len(calc.out) = 148
    /\ ReadsBack

\* C14 as stated: the layout above, and for nonce = 42 and one call with
\* amount = 1000, gas = MAX and 8 bytes of call data the output is the
\* fixed 101-byte layout in that field order.
C14_AsStated ==
    calc.fn = "build_actions_signing_bytes" =>
        /\ ReadsBack
        /\ SingleCallCase => Len(calc.out) = 101

(***************************************************************************)
(* Properties of the compact signature, checked under SpecCrypto.          *)
(***************************************************************************)
RawS == be_number(calc.raw.s)

HighS == RawS > be_number(SECP256K1_ORDER_HALF)

NormalizedS == IF HighS THEN be_number(SECP256K1_ORDER) - RawS ELSE RawS

NormalizedId ==
    IF HighS THEN 1 - calc.raw.recovery_id ELSE calc.raw.recovery_id

FinalS == SubSeq(calc.out.v, SigLen + 1, 2 * SigLen)

\* C15: for every key and digest, the output of fuel_compact_sign is
\* r ++ final_s where s was replaced by curve_order - s with the recovery id
\* flipped exactly when s > curve_order/2, so that s with the top bit
\* cleared is always <= curve_order/2, the top bit of the first byte of
\* final_s equals the (possibly flipped) recovery id, and the remaining bits
\* of final_s equal the normalized s unchanged.
C15_CompactSignature ==
    calc.fn = "fuel_compact_sign" /\ calc.out.ok =>
        /\ Len(calc.out.v) = 2 * SigLen
        /\ SubSeq(calc.out.v, 1, SigLen) = calc.raw.r
        /\ FinalS[1] \div 128 = NormalizedId
        /\ be_number([FinalS EXCEPT ![1] = @ % 128]) = NormalizedS
        /\ NormalizedS <= be_number(SECP256K1_ORDER_HALF)

\* a high s whose negation borrows from the first byte was replaced by
\* order - s, and the recovery id 0 became the top bit 1
C15_Witness ==
    /\ calc.fn = "fuel_compact_sign"
    /\ calc.out.ok
    /\ HighS
    /\ calc.raw.s[SigLen] > SECP256K1_ORDER[SigLen]
    /\ calc.raw.recovery_id = 0
    /\ FinalS[1] \div 128 = 1
    /\ be_number([FinalS EXCEPT ![1] = @ % 128]) + RawS
          = be_number(SECP256K1_ORDER)

(***************************************************************************)
(* Properties of the response classification, checked under SpecApi.       *)
(***************************************************************************)
\* the answer is a JSON object
IsObject == calc.answer.sent /\ calc.answer.json

IsSuccessShape == calc.answer.tx_id

IsPreflightShape == calc.answer.code /\ ~calc.answer.tx_id

IsRevertShape ==
    calc.answer.message /\ ~calc.answer.code /\ ~calc.answer.tx_id

\* C16 as amended: submit_actions classifies a JSON answer by field
\* presence.  Under a 2xx status it returns Ok when tx_id is present, the
\* coded error when code is present and tx_id absent, OnChainRevert when
\* message is present and code and tx_id are absent, and Ok with the raw
\* response when none of the three is present.  Under any other status a
\* code gives the coded error whether or not tx_id is present, a message
\* without a code gives OnChainRevert, and anything else HttpError.  A 2xx
\* body that is no JSON gives JsonError and a request without an answer
\* HttpError.
C16_ClassifiesByFields ==
    calc.fn = "submit_actions" =>
        /\ ~calc.answer.sent => calc.out.err = "HttpError"
        /\ calc.answer.sent /\ ~calc.answer.json =>
              calc.out.err = IF calc.answer.status_ok THEN "JsonError"
                             ELSE "HttpError"
        /\ IsObject /\ calc.answer.status_ok =>
              /\ IsSuccessShape => calc.out.ok /\ calc.out.shape = "success"
              /\ IsPreflightShape => calc.out.err = "ApiError"
              /\ IsRevertShape => calc.out.err = "OnChainRevert"
              /\ ~IsSuccessShape /\ ~IsPreflightShape /\ ~IsRevertShape =>
                    calc.out.ok /\ calc.out.shape = "ambiguous"
        /\ IsObject /\ ~calc.answer.status_ok =>
              /\ ~calc.out.ok
              /\ calc.answer.code => calc.out.err = "ApiError"
              /\ calc.answer.message /\ ~calc.answer.code =>
                    calc.out.err = "OnChainRevert"
              /\ ~calc.answer.message /\ ~calc.answer.code =>
                    calc.out.err = "HttpError"

\* a 2xx JSON answer with neither tx_id nor code nor message came back as Ok
C16_Witness ==
    /\ calc.fn = "submit_actions"
    /\ IsObject
    /\ calc.answer.status_ok
    /\ ~calc.answer.tx_id /\ ~calc.answer.code /\ ~calc.answer.message
    /\ calc.out.ok
    /\ calc.out.shape = "ambiguous"

\* C16 as stated: submit_actions classifies every API response by field
\* presence, not by HTTP status alone, into exactly one of three outcomes -
\* success when tx_id is present, pre-flight failure when code is present
\* and tx_id absent, on-chain revert when message is present and code and
\* tx_id are absent - and returns Ok only for success, a coded error for
\* pre-flight failure and OnChainRevert for an on-chain revert.
C16_AsStated ==
    calc.fn = "submit_actions" /\ IsObject =>
        /\ calc.out.ok <=> IsSuccessShape
        /\ IsPreflightShape => calc.out.err = "ApiError"
        /\ IsRevertShape => calc.out.err = "OnChainRevert"
        /\ calc.out.ok \/ calc.out.err \in {"ApiError", "OnChainRevert"}

(***************************************************************************)
(* Properties of the revert decoder, checked under SpecRevert.             *)
(***************************************************************************)
RevertContext == revert_context(calc.message, calc.reason, calc.receipts)

\* the groups of the catalog that have a variant at the ordinal
GroupsAt(ordinal) ==
    { i \in DOMAIN ABI_ERROR_ENUMS : ordinal <= Len(ABI_ERROR_ENUMS[i][2]) }

\* the group inferred from the keywords has a variant at the ordinal
InferredHas(ordinal) ==
    \E i \in GroupsAt(ordinal) :
        ABI_ERROR_ENUMS[i][1] = infer_enum_from_context(RevertContext)

\* C18: for a Revert(<n>) code of the form 0xFFFFFFFFFFFF0000 | ordinal
\* with ordinal >= 1, the decoder names the ordinal-th (1-based) variant of
\* the error group inferred from keywords in the surrounding text
\* (CreateOrder implies the order-creation group, so ordinal 9 yields
\* OrderPartiallyFilled); when the inference yields no variant it lists
\* every group that has a variant at that ordinal instead of picking one:
\* all of them when there are several, the only one when there is one.
C18_DecodesByInferredGroup ==
    calc.fn = "decode_revert_code" /\ calc.raw.hi = SIGNAL_HIGH
    /\ calc.raw.lo >= 1 =>
        /\ calc.decoded.some
        /\ calc.decoded.v.ordinal = calc.raw.lo
        /\ InferredHas(calc.raw.lo) =>
              /\ calc.decoded.v.form = "named"
              /\ calc.decoded.v.enum_name
                    = infer_enum_from_context(RevertContext)
              /\ \E i \in GroupsAt(calc.raw.lo) :
                    /\ ABI_ERROR_ENUMS[i][1] = calc.decoded.v.enum_name
                    /\ ABI_ERROR_ENUMS[i][2][calc.raw.lo]
                          = calc.decoded.v.variant
        /\ Contains(RevertContext, "CreateOrder") /\ calc.raw.lo = 9 =>
              calc.decoded.v.variant = "OrderPartiallyFilled"
        /\ ~InferredHas(calc.raw.lo) =>
              /\ Cardinality(GroupsAt(calc.raw.lo)) >= 2 =>
                    /\ calc.decoded.v.form = "ambiguous"
                    /\ { calc.decoded.v.candidates[k]
                         : k \in DOMAIN calc.decoded.v.candidates }
                          = { <<ABI_ERROR_ENUMS[i][1],
                                ABI_ERROR_ENUMS[i][2][calc.raw.lo]>>
                              : i \in GroupsAt(calc.raw.lo) }
              /\ Cardinality(GroupsAt(calc.raw.lo)) = 1 =>
                    /\ calc.decoded.v.form = "named"
                    /\ \E i \in GroupsAt(calc.raw.lo) :
                          /\ ABI_ERROR_ENUMS[i][1] = calc.decoded.v.enum_name
                          /\ ABI_ERROR_ENUMS[i][2][calc.raw.lo]
                                = calc.decoded.v.variant
              /\ GroupsAt(calc.raw.lo) = {} =>
                    calc.decoded.v.form = "unknown"

\* without a keyword, ordinal 4 was decoded as the list of the three groups
\* that have a fourth variant
C18_Witness ==
    /\ calc.fn = "decode_revert_code"
    /\ calc.raw = Code(SIGNAL_HIGH, 4)
    /\ infer_enum_from_context(RevertContext) = ""
    /\ calc.decoded.some
    /\ calc.decoded.v.form = "ambiguous"
    /\ Len(calc.decoded.v.candidates) = 3

\* the context carries a code that decodes: "Revert(<digits>)" whose number
\* has the signal pattern and an ordinal >= 1
Decodable ==
    \E i \in DOMAIN RevertContext :
        /\ RevertContext[i].kind = "revert"
        /\ RevertContext[i].digits = "number"
        /\ RevertContext[i].closed
        /\ RevertContext[i].raw.hi = SIGNAL_HIGH
        /\ RevertContext[i].raw.lo >= 1

\* C19: augment_revert_reason never loses the raw reason: when message,
\* reason and receipts contain no decodable Revert(<digits>) code the result
\* equals the reason exactly, and otherwise a non-empty reason is a prefix
\* of the result.
C19_ReasonPreserved ==
    calc.fn = "augment_revert_reason" =>
        /\ ~Decodable => calc.out = calc.reason
        /\ Decodable /\ calc.reason # <<>> =>
              /\ Len(calc.out) >= Len(calc.reason)
              /\ SubSeq(calc.out, 1, Len(calc.reason)) = calc.reason

\* a plain reason came back followed by the error decoded from the message
C19_Witness ==
    /\ calc.fn = "augment_revert_reason"
    /\ Decodable
    /\ calc.reason = <<Word("transaction reverted")>>
    /\ Len(calc.out) = 2
    /\ calc.out[1] = Word("transaction reverted")
    /\ calc.out[2].kind = "bracketed"

(***************************************************************************)
(* The revert decoder in the submission path, checked under SpecApi.       *)
(***************************************************************************)
\* C17: an on-chain revert of a batch submission is passed through the
\* Revert Decoder before it reaches the caller: the reason of the returned
\* OnChainRevert error is the raw reason enriched with the decoded contract
\* error name whenever the response text contains a decodable
\* Revert(<digits>) code.
C17_RevertReasonDecoded ==
    calc.fn = "submit_actions" /\ calc.out.err = "OnChainRevert" =>
        calc.error.reason
            = augment_revert_reason(calc.body.message, calc.body.reason,
                                    calc.body.receipts)

(***************************************************************************)
(* cancel_all_orders, checked under Spec.                                  *)
(***************************************************************************)
\* the order ids that name an order
RECURSIVE NamedOrders(_)
NamedOrders(order_ids) ==
    IF order_ids = <<>> THEN 0
    ELSE (IF Head(order_ids) = "" THEN 0 ELSE 1)
         + NamedOrders(Tail(order_ids))

\* the number of calls of all the batches a handler signed
RECURSIVE SignedCalls(_)
SignedCalls(signed) ==
    IF signed = <<>> THEN 0
    ELSE Head(signed).n_calls + SignedCalls(Tail(signed))

\* C20: a cancel_all_orders that returns Ok has submitted a CancelOrder for
\* every open order of the account in the market, however many there are,
\* in successive batches of at most 5 actions, each signed by the session
\* key at the nonce the session had when the batch was built.
C20_CancelsEveryOpenOrder ==
    last.op = "cancel_all_orders" /\ last.ok =>
        /\ SignedCalls(last.signed) = NamedOrders(last.open)
        /\ \A i \in 1..Len(last.signed) :
              /\ last.signed[i].key = "session"
              /\ last.signed[i].n_calls \in 1..CANCEL_CHUNK
              /\ last.signed[i].nonce = last.nonce_before + (i - 1)

(***************************************************************************)
(* client.rs: MarketActionsBuilder.  The builder is a value the caller     *)
(* threads through the appends; `calc` holds it with the log of the calls  *)
(* made on it and what build() returned.                                   *)
(***************************************************************************)
NoError == ""

\* MarketActionsBuilder::new
new_builder(market) ==
    [market |-> market, actions |-> <<>>, first_error |-> NoError]

record_error_once(b, err) ==
    IF b.first_error = NoError THEN [b EXCEPT !.first_error = err] ELSE b

builder_settle_balance(b) ==
    [b EXCEPT !.actions = Append(@, [type |-> "SettleBalance"])]

builder_cancel_order(b, order_id) ==
    [b EXCEPT !.actions = Append(@, [type |-> "CancelOrder",
                                     order_id |-> order_id])]

builder_create_order(b, side, price, quantity, order_type) ==
    IF b.first_error # NoError THEN b
    ELSE With(order_input(price, b.market), LAMBDA p :
         IF ~p.ok THEN record_error_once(b, p.err)
         ELSE With(order_input(quantity, b.market), LAMBDA q :
              IF ~q.ok THEN record_error_once(b, q.err)
              ELSE [b EXCEPT !.actions =
                       Append(@, CreateOrderAction(side, p.v, q.v,
                                                   order_type))]))

\* a build that returns the actions whatever was remembered
build_ignoring_error(b) ==
    [ok |-> TRUE, err |-> NoError, actions |-> b.actions]

build(b) ==
    IF b.first_error # NoError
    THEN [ok |-> FALSE, err |-> b.first_error, actions |-> <<>>]
    ELSE [ok |-> TRUE, err |-> NoError, actions |-> b.actions]

\* the appends made on one builder
MaxAppends == 3

BuilderMarket == MarketsResponses[1].markets[1]

\* decimal strings that parse or do not, typed values of this market or of
\* another one
BuilderInputs ==
    { Text(DecStr(1, 1, 0)), Text(Garbage),
      Typed(Dec(2, 0), BuilderMarket.market_id), Typed(Dec(2, 0), "0xm2") }

NotBuilt == [ok |-> FALSE, err |-> "not built", actions |-> <<>>]

InitBuilder ==
    /\ now = 1
    /\ accountNonce = 0
    /\ markets_cache = NoCache
    /\ markets_cache_at = NoInstant
    /\ metadata_policy = [kind |-> "OptimisticTtl", ttl |-> DefaultTtl]
    /\ session = NoSession
    /\ last = NoLast
    /\ calc = [fn |-> "new", builder |-> new_builder(BuilderMarket),
               log |-> <<>>, built |-> NotBuilt]

\* one append: the builder is consumed and returned, the call is logged
Appended(method, b, args) ==
    /\ calc.fn # "build"
    /\ Len(calc.log) < MaxAppends
    /\ calc' = [calc EXCEPT !.fn = method, !.builder = b,
                            !.log = Append(@, [method |-> method] @@ args)]
    /\ UNCHANGED <<now, accountNonce, markets_cache, markets_cache_at,
                   metadata_policy, session, last>>

BuilderSettleBalance ==
    Appended("settle_balance", builder_settle_balance(calc.builder),
             [order_id |-> "", price |-> Text(Garbage),
              quantity |-> Text(Garbage)])

BuilderCancelOrder ==
    \E order_id \in {"0xo1", "0xo2"} :
        Appended("cancel_order", builder_cancel_order(calc.builder, order_id),
                 [order_id |-> order_id, price |-> Text(Garbage),
                  quantity |-> Text(Garbage)])

BuilderCreateOrder ==
    \E price \in BuilderInputs, quantity \in BuilderInputs :
        Appended("create_order",
                 builder_create_order(calc.builder, "Buy", price, quantity,
                                      Spot),
                 [order_id |-> "", price |-> price, quantity |-> quantity])

\* build(self) consumes the builder
Build ==
    /\ calc.fn # "build"
    /\ calc' = [calc EXCEPT !.fn = "build", !.built = build(calc.builder)]
    /\ UNCHANGED <<now, accountNonce, markets_cache, markets_cache_at,
                   metadata_policy, session, last>>

NextBuilder ==
    \/ BuilderSettleBalance
    \/ BuilderCancelOrder
    \/ BuilderCreateOrder
    \/ Build

SpecBuilder == InitBuilder /\ [][NextBuilder]_vars

\* the error an append would report on its own: only create_order has one,
\* of its price before its quantity
AppendError(call) ==
    IF call.method # "create_order" THEN NoError
    ELSE IF ~order_input(call.price, BuilderMarket).ok
    THEN order_input(call.price, BuilderMarket).err
    ELSE IF ~order_input(call.quantity, BuilderMarket).ok
    THEN order_input(call.quantity, BuilderMarket).err
    ELSE NoError

\* the action an append stands for
AppendAction(call) ==
    IF call.method = "settle_balance" THEN [type |-> "SettleBalance"]
    ELSE IF call.method = "cancel_order"
    THEN [type |-> "CancelOrder", order_id |-> call.order_id]
    ELSE CreateOrderAction("Buy", order_input(call.price, BuilderMarket).v,
                           order_input(call.quantity, BuilderMarket).v, Spot)

FailedAppends == { i \in 1..Len(calc.log) : AppendError(calc.log[i]) # NoError }

FirstFailed == CHOOSE i \in FailedAppends : \A j \in FailedAppends : i <= j

\* C21: every append returns the builder (none fails), build() returns the
\* error of the first append that failed if any append failed, and otherwise
\* the appended actions in the order of the calls.
C21_BuilderDefersValidation ==
    calc.fn = "build" =>
        IF FailedAppends # {}
        THEN ~calc.built.ok /\ calc.built.err = AppendError(calc.log[FirstFailed])
        ELSE /\ calc.built.ok
             /\ calc.built.actions
                    = [i \in 1..Len(calc.log) |-> AppendAction(calc.log[i])]

\* appends were made after a failed one, of another error, and build()
\* returned the first error
C21_Witness ==
    /\ calc.fn = "build"
    /\ Len(calc.log) = MaxAppends
    /\ FailedAppends # {}
    /\ \E j \in FailedAppends :
          AppendError(calc.log[j]) # AppendError(calc.log[FirstFailed])
    /\ ~calc.built.ok

\* three actions of three kinds built in the order of the calls
C21_WitnessActions ==
    /\ calc.fn = "build"
    /\ calc.built.ok
    /\ Len(calc.built.actions) = MaxAppends
    /\ calc.built.actions[1].type = "SettleBalance"
    /\ calc.built.actions[2].type = "CreateOrder"
    /\ calc.built.actions[3].type = "CancelOrder"

(***************************************************************************)
(* The market cache, checked under Spec.                                   *)
(***************************************************************************)
\* the GET /v1/markets requests of the last call, and its lookups that
\* re-fetched
MarketFetches == { i \in 1..Len(last.net) : last.net[i] = "get_markets" }

Refreshes == { i \in 1..Len(last.lookups) : last.lookups[i].refresh }

\* what the policy asks for a lookup that finds this cache
MustRefresh(lookup) ==
    \/ lookup.cache = NoCache
    \/ metadata_policy.kind = "StrictFresh"
    \/ /\ metadata_policy.kind = "OptimisticTtl"
       /\ last.now - lookup.at >= metadata_policy.ttl

NoSnapshot == [id |-> NoCache, received |-> NoInstant]

Snapshot(id, received) == [id |-> id, received |-> received]

\* the bodies GET /v1/markets can answer with
FetchedIds == {1, 2}

\* a client whose readers do not wait for the exclusive borrow
borrow_unchecked(pc) == FALSE

\* `&mut self` of fetch_markets: the client is exclusively borrowed from the
\* call until the handler returns
borrowed_mut(pc) == pc # "idle"

InitCache ==
    /\ now = 1
    /\ accountNonce = 0
    /\ markets_cache = NoCache
    /\ markets_cache_at = NoInstant
    /\ metadata_policy = [kind |-> "OptimisticTtl", ttl |-> DefaultTtl]
    /\ session = NoSession
    /\ last = NoLast
    /\ calc = [fn |-> "new", pc |-> "idle", cache |-> NoSnapshot,
               at |-> NoInstant, resp |-> NoSnapshot,
               before |-> [cache |-> NoSnapshot, at |-> NoInstant],
               seen |-> [cache |-> NoSnapshot, at |-> NoInstant]]

CacheFrame ==
    UNCHANGED <<accountNonce, markets_cache, markets_cache_at,
                metadata_policy, session, last>>

CacheTick ==
    /\ now < MaxTime
    /\ now' = now + 1
    /\ UNCHANGED calc
    /\ CacheFrame

\* fetch_markets is called: self.api.get_markets() is awaited
FetchMarketsCall ==
    /\ ~borrowed_mut(calc.pc)
    /\ calc' = [calc EXCEPT !.fn = "fetch_markets", !.pc = "await",
                            !.before = [cache |-> calc.cache,
                                        at |-> calc.at]]
    /\ UNCHANGED now /\ CacheFrame

\* the `?` on a failed GET returns before any assignment
FetchMarketsFail ==
    /\ calc.pc = "await"
    /\ calc' = [calc EXCEPT !.fn = "fetch_failed", !.pc = "idle"]
    /\ UNCHANGED now /\ CacheFrame

FetchMarketsResp ==
    /\ calc.pc = "await"
    /\ \E id \in FetchedIds :
          calc' = [calc EXCEPT !.pc = "store_cache",
                               !.resp = Snapshot(id, now)]
    /\ UNCHANGED now /\ CacheFrame

\* self.markets_cache = Some(resp)
FetchStoreCache ==
    /\ calc.pc = "store_cache"
    /\ calc' = [calc EXCEPT !.pc = "store_at", !.cache = calc.resp]
    /\ UNCHANGED now /\ CacheFrame

\* self.markets_cache_at = Some(Instant::now()); Ok(..)
FetchStoreAt ==
    /\ calc.pc = "store_at"
    /\ calc' = [calc EXCEPT !.fn = "fetch_ok", !.pc = "idle", !.at = now]
    /\ UNCHANGED now /\ CacheFrame

\* a reader of the cache (should_refresh_markets, the tail of
\* ensure_markets) borrows the client
ReadCache ==
    /\ ~borrowed_mut(calc.pc)
    /\ calc' = [calc EXCEPT !.fn = "read",
                            !.seen = [cache |-> calc.cache, at |-> calc.at]]
    /\ UNCHANGED now /\ CacheFrame

NextCache ==
    \/ CacheTick
    \/ FetchMarketsCall
    \/ FetchMarketsFail
    \/ FetchMarketsResp
    \/ FetchStoreCache
    \/ FetchStoreAt
    \/ ReadCache

SpecCache == InitCache /\ [][NextCache]_vars

\* a snapshot with the fetch time that belongs to it
Whole(held) ==
    IF held.cache = NoSnapshot THEN held.at = NoInstant
    ELSE /\ held.cache.id \in FetchedIds
         /\ held.at # NoInstant
         /\ held.at >= held.cache.received

\* C23: the cache holds one whole snapshot.  A refresh that succeeded has
\* replaced the response together with its fetch time, a refresh that failed
\* has left the response and the fetch time as they were before the call,
\* and what a reader sees is always a response with its own fetch time,
\* never the new response with the old time.
C23_WholeSnapshot ==
    /\ calc.fn = "fetch_ok" =>
          /\ calc.cache = calc.resp
          /\ calc.at >= calc.resp.received
    /\ calc.fn = "fetch_failed" =>
          calc.before = [cache |-> calc.cache, at |-> calc.at]
    /\ calc.fn = "read" => Whole(calc.seen)
    /\ calc.pc = "idle" => Whole([cache |-> calc.cache, at |-> calc.at])

\* a reader has seen a snapshot that replaced another one, and a later
\* refresh has failed
C23_Witness ==
    /\ calc.fn = "fetch_failed"
    /\ calc.seen.cache # NoSnapshot
    /\ calc.cache # NoSnapshot
    /\ calc.seen.cache # calc.cache

(***************************************************************************)
(* client.rs: setup_account.  `calc` holds the server's accounts by owner  *)
(* and the record of the calls made.                                       *)
(*   accounts  owner -> trade_account_id, NoAccountId when it has none     *)
(*   creates   owner -> the POST /v1/accounts the server has executed      *)
(*   returned  owner -> the trade_account_ids setup_account has returned   *)
(*   out       the last call: its owner, Result, and what became of the    *)
(*             faucet and the whitelist step                               *)
(*   answered  whether the account requests of the last call were answered *)
(***************************************************************************)
NoAccountId == 0

\* the setup_account calls of one run
MaxSetups == 3

\* let attempts = 4usize
MINT_ATTEMPTS == 4

\* delays_secs = [0u64, 2, 5]
WHITELIST_ATTEMPTS == 3

\* any attempt among the first `attempts` that succeeded
retry(enabled, attempts, outcomes) ==
    IF ~enabled THEN "skipped"
    ELSE IF \E i \in 1..attempts : outcomes[i] = "ok" THEN "ok"
    ELSE "failed"

retry_mint_to_contract(config, outcomes) ==
    retry(config.faucet_url, MINT_ATTEMPTS, outcomes)

retry_whitelist_account(config, outcomes) ==
    retry(config.whitelist_required, WHITELIST_ATTEMPTS, outcomes)

\* get_balances failed, or no balance is non-zero
should_faucet_account(balances) == balances # "nonzero"

\* POST /v1/accounts on the server: a new trade account for the owner
server_create_account(st, owner) ==
    [st EXCEPT !.accounts[owner] = st.next_id,
               !.next_id = @ + 1,
               !.creates[owner] = @ + 1]

SetupOut(owner, ok, err, id, faucet, whitelist) ==
    [owner |-> owner, ok |-> ok, err |-> err, trade_account_id |-> id,
     faucet |-> faucet, whitelist |-> whitelist]

\* whether the account requests a call makes are all answered: the lookup by
\* owner, the creation when the owner has no account, the lookup by id
requests_answered(st, owner, env) ==
    /\ env.by_owner
    /\ st.accounts[owner] = NoAccountId => env.create = "ok"
    /\ env.by_id

\* steps 3 to 5: faucet, whitelist, the account as the server has it now
setup_funding(st, owner, trade_account_id, env) ==
    With(IF should_faucet_account(env.balances)
         THEN retry_mint_to_contract(env.config, env.mint)
         ELSE "not needed", LAMBDA faucet :
    With(retry_whitelist_account(env.config, env.whitelist),
         LAMBDA whitelist :
        IF ~env.by_id
        THEN [st EXCEPT !.out = SetupOut(owner, FALSE, "HttpError",
                                         NoAccountId, faucet, whitelist)]
        ELSE [st EXCEPT !.out = SetupOut(owner, TRUE, "", trade_account_id,
                                         faucet, whitelist),
                        !.returned[owner] = @ \cup {trade_account_id}]))

\* a setup_account that creates an account whatever the lookup found
setup_account_always_creating(st, owner, env) ==
    IF ~env.by_owner
    THEN [st EXCEPT !.out = SetupOut(owner, FALSE, "HttpError", NoAccountId,
                                     "", "")]
    ELSE With(server_create_account(st, owner), LAMBDA st1 :
             setup_funding(st1, owner, st1.accounts[owner], env))

setup_account(st, owner, env) ==
    IF ~env.by_owner
    THEN [st EXCEPT !.out = SetupOut(owner, FALSE, "HttpError", NoAccountId,
                                     "", "")]
    ELSE IF st.accounts[owner] # NoAccountId
    THEN setup_funding(st, owner, st.accounts[owner], env)
    ELSE IF env.create = "failed"
    THEN [st EXCEPT !.out = SetupOut(owner, FALSE, "HttpError", NoAccountId,
                                     "", "")]
    ELSE With(server_create_account(st, owner), LAMBDA st1 :
             IF env.create = "lost"
             THEN [st1 EXCEPT !.out = SetupOut(owner, FALSE, "HttpError",
                                               NoAccountId, "", "")]
             ELSE setup_funding(st1, owner, st1.accounts[owner], env))

AccountOwners == {"0xowner", "0xowner2"}

\* Testnet has a faucet and a whitelist, Mainnet has neither
Configs == { [faucet_url |-> TRUE, whitelist_required |-> TRUE],
             [faucet_url |-> FALSE, whitelist_required |-> FALSE] }

\* what the attempts of a retry loop meet: all fail, the last one succeeds,
\* the first one succeeds
AttemptOutcomes(n) ==
    { [i \in 1..n |-> "failed"],
      [i \in 1..n |-> IF i = n THEN "ok" ELSE "failed"],
      [i \in 1..n |-> "ok"] }

SetupEnvs ==
    [ config : Configs, by_owner : BOOLEAN,
      create : {"ok", "lost", "failed"},
      balances : {"zero", "nonzero", "failed"},
      mint : AttemptOutcomes(MINT_ATTEMPTS),
      whitelist : AttemptOutcomes(WHITELIST_ATTEMPTS),
      by_id : BOOLEAN ]

InitAccount ==
    /\ now = 1
    /\ accountNonce = 0
    /\ markets_cache = NoCache
    /\ markets_cache_at = NoInstant
    /\ metadata_policy = [kind |-> "OptimisticTtl", ttl |-> DefaultTtl]
    /\ session = NoSession
    /\ last = NoLast
    /\ calc = [fn |-> "new", calls |-> 0, next_id |-> 1,
               accounts |-> [o \in AccountOwners |-> NoAccountId],
               creates |-> [o \in AccountOwners |-> 0],
               returned |-> [o \in AccountOwners |-> {}],
               answered |-> TRUE,
               out |-> SetupOut("", TRUE, "", NoAccountId, "", "")]

SetupAccount ==
    /\ calc.calls < MaxSetups
    /\ \E owner \in AccountOwners, env \in SetupEnvs :
          calc' = [setup_account(calc, owner, env) EXCEPT
                      !.fn = "setup_account", !.calls = @ + 1,
                      !.answered = requests_answered(calc, owner, env)]
    /\ UNCHANGED <<now, accountNonce, markets_cache, markets_cache_at,
                   metadata_policy, session, last>>

NextAccount == SetupAccount

SpecAccount == InitAccount /\ [][NextAccount]_vars

\* C24: setup_account creates a trade account only when the owner has none:
\* over any number of calls the server executes at most one creation per
\* owner, every call that returns Ok for an owner returns the same
\* trade_account_id, and a call fails exactly when one of its account
\* requests fails, whatever became of its faucet and whitelist steps.
C24_SetupAccountIdempotent ==
    /\ \A o \in AccountOwners :
          /\ calc.creates[o] <= 1
          /\ Cardinality(calc.returned[o]) <= 1
          /\ calc.returned[o] \subseteq {calc.accounts[o]} \ {NoAccountId}
    /\ calc.fn = "setup_account" => (calc.out.ok <=> calc.answered)

\* a third call for an owner returned the account the first call created,
\* although its faucet and whitelist steps failed
C24_Witness ==
    /\ calc.fn = "setup_account"
    /\ calc.calls = MaxSetups
    /\ calc.out.ok
    /\ calc.out.faucet = "failed"
    /\ calc.out.whitelist = "failed"
    /\ calc.creates[calc.out.owner] = 1
    /\ \A o \in AccountOwners : o # calc.out.owner => calc.creates[o] = 0

(***************************************************************************)
(* websocket.rs: O2WebSocket.  The caller, the reader task (read_loop and  *)
(* reconnect_loop) and the ping task share should_run, connected and the   *)
(* locked WsInner; each step below is what one of them does between two    *)
(* awaits.  `calc` holds the shared state and the positions.               *)
(*   should_run, connected   the two AtomicBool                            *)
(*   subscriptions           WsInner.subscriptions                         *)
(*   streams   one entry per stream_* call: its kind, whether its sender   *)
(*             is still in WsInner, the updates and errors sent to it and  *)
(*             the kind of the last item sent                              *)
(*   link      whether the connection behind the sink is alive             *)
(*   rpc       the reader task: "read_top", "read_wait", "read_exit",      *)
(*             "rc_top", "rc_sleep", "rc_install", "rc_resend",            *)
(*             "rc_read_exit", "done"                                      *)
(*   cpc       the caller: "idle", "stream_send", "unsub_retain",          *)
(*             "disconnect_lock", "disconnected"                           *)
(*   attempts  the counter of reconnect_loop; tries: the connection        *)
(*             attempts made since the last drop                           *)
(*   resent    what the last reconnect re-sent; removed: the subscriptions *)
(*             an unsubscribe_* removed and no stream_* added again        *)
(*   at_disconnect   the items each stream had when disconnect() returned  *)
(*   gave_up   reconnect_loop has reached max_attempts; open_at_end: the   *)
(*             streams whose sender was in WsInner at that moment          *)
(*   fn        "resend" and "disconnected" right after those steps         *)
(***************************************************************************)
Sub(action, key) == [action |-> action, key |-> key]

\* an add_subscription that pushes whatever is tracked
add_subscription_always(subscriptions, sub) == Append(subscriptions, sub)

\* add_subscription: a subscription already tracked is not pushed again
add_subscription(subscriptions, sub) ==
    IF \E i \in 1..Len(subscriptions) : subscriptions[i] = sub
    THEN subscriptions
    ELSE Append(subscriptions, sub)

\* subscriptions.retain(|s| !(s is a subscription of this action ...))
retain_without(subscriptions, action) ==
    SelectSeq(subscriptions, LAMBDA s : s.action # action)

NewStream(kind) ==
    [kind |-> kind, open |-> TRUE, updates |-> 0, errors |-> 0, last |-> ""]

\* for tx in &guard.<kind>_senders { tx.send(Ok(update)) }
send_update(streams, kind) ==
    [i \in 1..Len(streams) |->
        IF streams[i].open /\ streams[i].kind = kind
        THEN [streams[i] EXCEPT !.updates = @ + 1, !.last = "update"]
        ELSE streams[i]]

close_all_senders(streams) ==
    [i \in 1..Len(streams) |-> [streams[i] EXCEPT !.open = FALSE]]

\* a close_all_senders_with_error that sends no error
close_all_senders_silently(streams) == close_all_senders(streams)

close_all_senders_with_error(streams) ==
    close_all_senders(
        [i \in 1..Len(streams) |->
            IF streams[i].open
            THEN [streams[i] EXCEPT !.errors = @ + 1, !.last = "error"]
            ELSE streams[i]])

\* the streams one run opens, the updates one stream is sent, and the
\* attempts a reconnect_loop without a limit is followed for
MaxStreams == 2
MaxUpdates == 1
MaxTries == 3

\* WsConfig.max_attempts: 0 is "no limit"
MaxAttemptsMenu == {0, 1, 2}

StreamKinds == {"depth", "orders"}

SubscribeOf(kind) ==
    IF kind = "depth" THEN Sub("subscribe_depth", "market1")
    ELSE Sub("subscribe_orders", "ids")

InitWs ==
    /\ now = 1
    /\ accountNonce = 0
    /\ markets_cache = NoCache
    /\ markets_cache_at = NoInstant
    /\ metadata_policy = [kind |-> "OptimisticTtl", ttl |-> DefaultTtl]
    /\ session = NoSession
    /\ last = NoLast
    /\ \E n \in MaxAttemptsMenu :
          calc = [fn |-> "connect", max_attempts |-> n,
                  should_run |-> TRUE, connected |-> TRUE,
                  subscriptions |-> <<>>, streams |-> <<>>,
                  link |-> TRUE,
                  rpc |-> "read_top", cpc |-> "idle", pending |-> "",
                  attempts |-> 0, tries |-> 0,
                  resent |-> <<>>, removed |-> {}, gave_up |-> FALSE,
                  open_at_end |-> {},
                  at_disconnect |-> <<>>]

WsFrame ==
    UNCHANGED <<now, accountNonce, markets_cache, markets_cache_at,
                metadata_policy, session, last>>

WsStep(fn, next) == calc' = [next EXCEPT !.fn = fn] /\ WsFrame

\* the environment: the connection drops
LinkDrop ==
    /\ calc.link
    /\ WsStep("", [calc EXCEPT !.link = FALSE])

\* read_loop: `while should_run.load()`
ReadTop ==
    /\ calc.rpc = "read_top"
    /\ WsStep("",
              [calc EXCEPT !.rpc = IF calc.should_run THEN "read_wait"
                                   ELSE "read_exit"])

\* read_loop: a Text message is parsed and sent to the senders of its kind
ReadMsg ==
    /\ calc.rpc = "read_wait"
    /\ calc.link
    /\ \E kind \in StreamKinds :
          /\ \A i \in 1..Len(calc.streams) :
                calc.streams[i].updates < MaxUpdates
          /\ WsStep("",
                    [calc EXCEPT !.streams = send_update(@, kind),
                                 !.rpc = "read_top"])

\* read_loop: WsMsg::Close stores connected = false and breaks
ReadClose ==
    /\ calc.rpc = "read_wait"
    /\ calc.link
    /\ WsStep("",
              [calc EXCEPT !.connected = FALSE, !.link = FALSE,
                           !.rpc = "read_exit"])

\* read_loop: stream.next() is None or an error
ReadEnd ==
    /\ calc.rpc = "read_wait"
    /\ ~calc.link
    /\ WsStep("", [calc EXCEPT !.rpc = "read_exit"])

\* after read_loop: `if should_run.load() { connected.store(false); .. }`
ReadExit ==
    /\ calc.rpc = "read_exit"
    /\ WsStep("",
              IF calc.should_run
              THEN [calc EXCEPT !.connected = FALSE, !.attempts = 0,
                                !.rpc = "rc_top"]
              ELSE [calc EXCEPT !.rpc = "done"])

\* reconnect_loop: the head of the loop
RcTop ==
    /\ calc.rpc = "rc_top"
    /\ WsStep("",
              IF ~calc.should_run THEN [calc EXCEPT !.rpc = "done"]
              ELSE IF calc.max_attempts > 0
                      /\ calc.attempts >= calc.max_attempts
              THEN [calc EXCEPT
                      !.should_run = FALSE,
                      !.streams = close_all_senders_with_error(@),
                      !.gave_up = TRUE,
                      !.open_at_end =
                          { i \in 1..Len(calc.streams) :
                                calc.streams[i].open },
                      !.rpc = "done"]
              ELSE [calc EXCEPT !.rpc = "rc_sleep"])

\* reconnect_loop: sleep(delay), attempts += 1, connect_async, which the
\* server accepts or not
RcAttempt ==
    /\ calc.rpc = "rc_sleep"
    /\ calc.tries < MaxTries
    /\ \E accepted \in BOOLEAN :
          WsStep("", [calc EXCEPT !.attempts = @ + 1, !.tries = @ + 1,
                                  !.rpc = IF accepted THEN "rc_install"
                                          ELSE "rc_top"])

\* reconnect_loop: guard.sink = Some(sink); connected.store(true)
RcInstall ==
    /\ calc.rpc = "rc_install"
    /\ WsStep("",
              [calc EXCEPT !.link = TRUE, !.connected = TRUE,
                           !.tries = 0, !.rpc = "rc_resend"])

\* reconnect_loop: re-send guard.subscriptions.clone(), then read_loop
RcResend ==
    /\ calc.rpc = "rc_resend"
    /\ WsStep("resend",
              [calc EXCEPT !.resent = calc.subscriptions,
                           !.rpc = "read_top"])

\* ping_loop: the pong is overdue: close the sink, connected.store(false)
PingTimeout ==
    /\ calc.should_run
    /\ calc.connected
    /\ WsStep("",
              [calc EXCEPT !.link = FALSE, !.connected = FALSE])

\* stream_*: under the lock, push the sender and track the subscription
StreamCall ==
    /\ calc.cpc = "idle"
    /\ Len(calc.streams) < MaxStreams
    /\ \E kind \in StreamKinds :
          WsStep("",
                 [calc EXCEPT
                    !.streams = Append(@, NewStream(kind)),
                    !.subscriptions = add_subscription(@, SubscribeOf(kind)),
                    !.removed = @ \ {SubscribeOf(kind)},
                    !.pending = kind,
                    !.cpc = "stream_send"])

\* stream_*: send_json(sub).await?; on an error the receiver is dropped
StreamSend ==
    /\ calc.cpc = "stream_send"
    /\ \E sent \in IF calc.link THEN {TRUE} ELSE {TRUE, FALSE} :
          WsStep("",
                 [calc EXCEPT
                    !.streams[Len(calc.streams)].open = @ /\ sent,
                    !.pending = "",
                    !.cpc = "idle"])

\* unsubscribe_*: send_json(..).await? returns the error of a failed send
UnsubscribeCall ==
    /\ calc.cpc = "idle"
    /\ \E kind \in StreamKinds :
       \E sent \in IF calc.link THEN {TRUE} ELSE {TRUE, FALSE} :
          WsStep("",
                 IF sent
                 THEN [calc EXCEPT !.pending = kind, !.cpc = "unsub_retain"]
                 ELSE calc)

\* unsubscribe_*: guard.subscriptions.retain(..)
UnsubscribeRetain ==
    /\ calc.cpc = "unsub_retain"
    /\ WsStep("",
              [calc EXCEPT
                 !.subscriptions =
                     retain_without(@, SubscribeOf(calc.pending).action),
                 !.removed = @ \cup {SubscribeOf(calc.pending)},
                 !.pending = "",
                 !.cpc = "idle"])

\* disconnect: should_run.store(false); connected.store(false)
DisconnectCall ==
    /\ calc.cpc = "idle"
    /\ WsStep("",
              [calc EXCEPT !.should_run = FALSE, !.connected = FALSE,
                           !.cpc = "disconnect_lock"])

\* disconnect: under the lock, send Close and close_all_senders; return
DisconnectLock ==
    /\ calc.cpc = "disconnect_lock"
    /\ WsStep("disconnected",
              [calc EXCEPT
                 !.link = FALSE,
                 !.streams = close_all_senders(@),
                 !.at_disconnect =
                     [i \in 1..Len(calc.streams) |->
                         calc.streams[i].updates + calc.streams[i].errors],
                 !.cpc = "disconnected"])

NextWs ==
    \/ LinkDrop
    \/ ReadTop
    \/ ReadMsg
    \/ ReadClose
    \/ ReadEnd
    \/ ReadExit
    \/ RcTop
    \/ RcAttempt
    \/ RcInstall
    \/ RcResend
    \/ PingTimeout
    \/ StreamCall
    \/ StreamSend
    \/ DisconnectCall
    \/ DisconnectLock

\* the connection with its streams: a caller that opens streams and
\* disconnects
SpecWs == InitWs /\ [][NextWs]_vars

\* the reader task is a spawned tokio task: it is scheduled whenever it can
\* run, its sleep ends and connect_async returns
ReaderTask ==
    \/ ReadTop
    \/ ReadEnd
    \/ ReadExit
    \/ RcTop
    \/ RcAttempt
    \/ RcInstall
    \/ RcResend

SpecWsFair == SpecWs /\ WF_vars(ReaderTask)

NextWsSubs ==
    \/ LinkDrop
    \/ ReadTop
    \/ ReadClose
    \/ ReadEnd
    \/ ReadExit
    \/ RcTop
    \/ RcAttempt
    \/ RcInstall
    \/ RcResend
    \/ PingTimeout
    \/ StreamCall
    \/ StreamSend
    \/ UnsubscribeCall
    \/ UnsubscribeRetain

\* the connection with its subscriptions: a caller that subscribes and
\* unsubscribes
SpecWsSubs == InitWs /\ [][NextWsSubs]_vars

\* C25: once disconnect() has returned, is_connected() is false and stays
\* false, the sender of every stream returned before is dropped, and no
\* stream is sent another item.
C25_DisconnectIsFinal ==
    calc.cpc = "disconnected" =>
        /\ ~calc.connected
        /\ \A i \in 1..Len(calc.streams) :
              /\ ~calc.streams[i].open
              /\ calc.streams[i].updates + calc.streams[i].errors
                    = calc.at_disconnect[i]

\* distinct entries
NoDuplicates(seq) ==
    \A i, j \in 1..Len(seq) : seq[i] = seq[j] => i = j

Elements(seq) == { seq[i] : i \in 1..Len(seq) }

\* C26: what a reconnect re-sends is the tracked subscriptions, each
\* distinct subscribe message once, and none that an unsubscribe_* call
\* removed before the reconnect and no stream_* call added again.
C26_ResubscribesTracked ==
    calc.fn = "resend" =>
        /\ NoDuplicates(calc.resent)
        /\ Elements(calc.resent) = Elements(calc.subscriptions)
        /\ Elements(calc.resent) \cap calc.removed = {}

\* two streams of one subscription and an unsubscribe of another one, then
\* a reconnect
C26_Witness ==
    /\ calc.fn = "resend"
    /\ Len(calc.streams) = MaxStreams
    /\ Len(calc.resent) = 1
    /\ calc.removed # {}

\* the reconnect loop never makes more than max_attempts attempts in a row
\* that the server refuses; once it has given up it has made exactly that
\* many, should_run is false, the task has returned, and every stream that
\* was open has been sent one error as its last item and lost its sender
GivesUpCleanly ==
    /\ calc.max_attempts > 0 => calc.tries <= calc.max_attempts
    /\ calc.gave_up =>
          /\ calc.max_attempts > 0
          /\ calc.tries = calc.max_attempts
          /\ ~calc.should_run
          /\ calc.rpc = "done"
          /\ \A i \in 1..Len(calc.streams) :
                /\ calc.streams[i].errors
                      = (IF i \in calc.open_at_end THEN 1 ELSE 0)
                /\ i \in calc.open_at_end =>
                      ~calc.streams[i].open /\ calc.streams[i].last = "error"

\* C27: with max_attempts = N > 0 and a server that refuses every attempt
\* after a drop, the reconnect loop makes exactly N attempts and then gives
\* up for good: is_terminated() is true, every open stream has been sent one
\* WebSocketDisconnected error as its last item and ends, and the task makes
\* no further attempt; with max_attempts = 0 the loop never gives up.  The
\* loop does get there: from its head it reaches an accepted connection or
\* its end.
C27_GivesUpAfterMaxAttempts ==
    /\ []GivesUpCleanly
    /\ (calc.rpc = "rc_top" /\ calc.max_attempts > 0)
          ~> (calc.rpc = "done" \/ calc.rpc = "rc_install")

\* the loop gave up after two refused attempts with a stream open that had
\* received an update
C27_Witness ==
    /\ calc.gave_up
    /\ calc.max_attempts = 2
    /\ \E i \in calc.open_at_end : calc.streams[i].updates = 1


(***************************************************************************)
(* What a batch signs and what it sends, checked under Spec.               *)
(***************************************************************************)
\* the contract function a JSON action names
SelectorOf(json) ==
    CASE json = "CreateOrder" -> "create_order"
      [] json = "CancelOrder" -> "cancel_order"
      [] json = "SettleBalance" -> "settle_balance"
      [] json = "RegisterReferer" -> "register_referer"

\* the JSON actions of a request, in the order of the per-market lists
RECURSIVE JsonActions(_)
JsonActions(market_actions) ==
    IF market_actions = <<>> THEN <<>>
    ELSE Head(market_actions).actions \o JsonActions(Tail(market_actions))

\* the signatures a handler made over action batches
ActionSignatures(signed) ==
    SelectSeq(signed, LAMBDA s : s.what = "actions")

\* signature s covers request r, made when the session stood at `nonce`
Covers(s, r, nonce) ==
    /\ s.nonce = r.nonce
    /\ r.nonce = nonce
    /\ Len(s.calls) = Len(JsonActions(r.actions))
    /\ \A k \in DOMAIN s.calls :
          s.calls[k].function_selector = SelectorOf(JsonActions(r.actions)[k])

\* C28: the signature sent with a batch covers what is sent: the signed
\* nonce is the nonce field of the request and the session's nonce, and the
\* signed calls are one per JSON action of the request, in the order of
\* the per-market action lists
C28_SignatureCoversRequest ==
    LET sigs == ActionSignatures(last.signed) IN
    /\ Len(sigs) = Len(last.requests)
    /\ \A i \in DOMAIN last.requests :
          Covers(sigs[i], last.requests[i], last.nonce_before + (i - 1))

\* a batch over two markets went out with three calls
C28_Witness ==
    /\ last.op = "batch_actions_multi"
    /\ Len(last.requests) = 1
    /\ Len(last.requests[1].actions) = 2
    /\ Len(last.signed[1].calls) = 3
    /\ last.nonce_before = 1


(***************************************************************************)
(* Nonce agreement between the client and the account, checked under Spec. *)
(***************************************************************************)
\* the call recorded in `last` was a batch handler or a withdrawal that
\* kept the account driven
Agreeing ==
    /\ session.live /\ session.driven
    /\ last'.op \in BatchOps \cup {"cancel_all_orders", "withdraw"}
    /\ session'.driven

\* C29: while the account is driven only through this client (after
\* create_session: accepted batches, failed submissions whose resync
\* succeeds, withdrawals), the nonce of every signed request is the
\* account's canonical nonce at the moment it is signed
C29_NonceAgreement ==
    [][Agreeing =>
          \A i \in DOMAIN last'.signed :
              last'.signed[i].nonce = last'.signed[i].canonical]_vars

(***************************************************************************)
(* A batch that fails before its submission, checked under Spec.           *)
(***************************************************************************)
\* the handler returned the error of a market resolution (the market is
\* unknown, the listing could not be fetched) or of the conversion of an
\* action
FailedBeforeSubmission ==
    /\ last.op \in BatchOps
    /\ ~last.ok
    /\ \/ last.local
       \/ last.err = "MarketNotFound"
       \/ last.err = "CryptoError"
       \/ /\ last.err = "HttpError"
          /\ last.net # <<>>
          /\ last.net[Len(last.net)] = "get_markets"

\* C30: a batch is all-or-nothing before submission: when the resolution of
\* a market or the conversion of one action fails, nothing has been signed
\* or submitted for any action of the batch and session.nonce is as it was
C30_AllOrNothing ==
    FailedBeforeSubmission =>
        /\ last.signed = <<>>
        /\ last.requests = <<>>
        /\ \A i \in DOMAIN last.net : last.net[i] # "submit_actions"
        /\ last.writes = <<>>
        /\ last.nonce_after = last.nonce_before
        /\ session.nonce = last.nonce_before

\* the second action of a batch failed after the first had been converted
C30_Witness ==
    /\ last.op = "batch_actions_multi"
    /\ last.local
    /\ last.err = "InvalidOrderParams"
    /\ Len(last.calls) = 1

\* the second market of a batch is unknown, the first had been converted
C30_WitnessMarket ==
    /\ last.op = "batch_actions_multi"
    /\ last.err = "MarketNotFound"
    /\ Len(last.calls) = 1
    /\ Len(last.jsons) = 1

====
